---- MODULE Spec2Model ----
(***************************************************************************)
(* RustPLC: lowering of the AST to the topology graph, the constraint set  *)
(* and the state machine, and the safety, liveness, timing and causality   *)
(* verifiers that run on them.                                             *)
(***************************************************************************)
EXTENDS Integers, Sequences, FiniteSets, TLC

VARIABLES
    program,          \* PlcProgram: the AST (topology, constraints, tasks)
    config,           \* SafetyConfig
    pc,               \* position of the pipeline
    sm,               \* Result<StateMachine, Vec<PlcError>> of build_state_machine
    model,            \* SafetyModel built by SafetyModel::from_inputs
    depth_plan,       \* DepthPlan built by build_depth_plan
    rule_index,       \* index of the safety rule verify_safety_with_config is at
    nodes,            \* analyze_rule: Vec<SearchNode>
    queue,            \* analyze_rule: VecDeque<usize> (node ids)
    shortest_depth,   \* analyze_rule: HashMap<ConcreteState, usize>
    fully_explored,   \* analyze_rule: the flag of the running search
    diagnostics,      \* verify_safety_with_config: Vec<SafetyDiagnostic>
    all_complete,     \* verify_safety_with_config
    checked_rules,    \* verify_safety_with_config
    outcomes,         \* SearchOutcome of every rule searched so far (by rule index)
    safety_result,    \* Result<SafetyReport, Vec<SafetyDiagnostic>>
    liveness_result,  \* Vec<LivenessDiagnostic> collected by verify_liveness
    topology_result,  \* Result<TopologyGraph, Vec<PlcError>> of build_topology_graph
    constraints_result, \* Result<ConstraintSet, Vec<PlcError>> of build_constraint_set
    timing_result,    \* Result<(), Vec<TimingDiagnostic>> of verify_timing
    causality_result, \* Result<(), Vec<CausalityDiagnostic>> of verify_causality
    verification,     \* Result<VerificationSummary, Vec<VerificationIssue>> of verify_all
    compiled,         \* Result<IrBundle, Vec<String>> of compile_pipeline
    engine            \* ScanCycleEngine running the generated scan_cycle

vars == <<program, config, pc, sm, model, depth_plan, rule_index, nodes, queue,
          shortest_depth, fully_explored, diagnostics, all_complete,
          checked_rules, outcomes, safety_result, liveness_result,
          topology_result, constraints_result, timing_result, causality_result,
          verification, compiled, engine>>

\* the results of the other builders and verifiers, which the safety and
\* liveness steps leave alone
ir_vars ==
    <<topology_result, constraints_result, timing_result, causality_result,
      verification, compiled, engine>>

\* what verify_safety_with_config works on
safety_vars ==
    <<config, model, depth_plan, rule_index, nodes, queue, shortest_depth,
      fully_explored, diagnostics, all_complete, checked_rules, outcomes,
      safety_result, engine>>

----------------------------------------------------------------------------
(* Generic helpers *)

Range(s) == {s[i] : i \in DOMAIN s}

None == <<>>
Some(x) == <<x>>
IsSome(o) == o # <<>>
Unwrap(o) == o[1]

Max(a, b) == IF a >= b THEN a ELSE b

\* str::contains
Contains(s, p) ==
    \E i \in 1..(Len(s) - Len(p) + 1) : SubSeq(s, i, i + Len(p) - 1) = p

\* str::ends_with
EndsWith(s, p) ==
    /\ Len(s) >= Len(p)
    /\ SubSeq(s, Len(s) - Len(p) + 1, Len(s)) = p

MapSeq(Op(_), s) == [i \in DOMAIN s |-> Op(s[i])]

----------------------------------------------------------------------------
(* AST: the statements of a step *)

Extend(target) == [statement |-> "action", action |-> "extend", target |-> target, value |-> ""]
Retract(target) == [statement |-> "action", action |-> "retract", target |-> target, value |-> ""]
Set(target, value) == [statement |-> "action", action |-> "set", target |-> target, value |-> value]
Log(message) == [statement |-> "action", action |-> "log", target |-> message, value |-> ""]
DurationValue(value, unit) == [value |-> value, unit |-> unit]
BooleanLiteral(b) == [kind |-> "boolean", value |-> b, device |-> "", state |-> ""]
StateLiteral(device, state) == [kind |-> "state", value |-> "", device |-> device, state |-> state]
ConditionExpression(left, operator, right) == [left |-> left, operator |-> operator, right |-> right]
Wait(condition) == [statement |-> "wait", condition |-> condition]
GotoDirective(line, step) == [line |-> line, step |-> step]
Timeout(duration, target) == [statement |-> "timeout", duration |-> duration, target |-> target]
Goto(line, step) == [statement |-> "goto", line |-> line, step |-> step]
Parallel(branches) == [statement |-> "parallel", branches |-> branches]
Race(branches) == [statement |-> "race", branches |-> branches]
AllowIndefiniteWait(value) == [statement |-> "allow_indefinite_wait", flag |-> value]

Branch(statements) == [statements |-> statements]
RaceBranch(statements, then_goto) == [statements |-> statements, then_goto |-> then_goto]

OnCompleteGoto(step) == [on_complete |-> "goto", step |-> step]
OnCompleteUnreachable == [on_complete |-> "unreachable", step |-> ""]

StepDeclaration(line, name, statements) ==
    [line |-> line, name |-> name, statements |-> statements]
TaskDeclaration(line, name, steps, on_complete_line, on_complete) ==
    [line |-> line, name |-> name, steps |-> steps, on_complete_line |-> on_complete_line, on_complete |-> on_complete]

----------------------------------------------------------------------------
(* AST: the topology and the constraints *)

\* the attributes the builders and the verifiers read
DeviceAttributes(connected_to, response_time, stroke_time, retract_time, ramp_time, detects) ==
    [connected_to |-> connected_to, response_time |-> response_time,
     stroke_time |-> stroke_time, retract_time |-> retract_time,
     ramp_time |-> ramp_time, detects |-> detects]

\* DeviceAttributes::default()
DefaultAttributes == DeviceAttributes(None, None, None, None, None, None)

\* device_type is the snake_case name of the DeviceType
DeviceDeclaration(line, name, device_type, attributes) ==
    [line |-> line, name |-> name, device_type |-> device_type,
     attributes |-> attributes]

StateReference(device, state) == [device |-> device, state |-> state]

\* TimingTarget::Task { task } (scope "task", no step) and
\* TimingTarget::Step { task, step } (scope "step")
TimingTarget(scope, task, step) == [scope |-> scope, task |-> task, step |-> step]

TimingConstraint(line, target, relation, duration) ==
    [line |-> line, target |-> target, relation |-> relation, duration |-> duration]

CausalityConstraint(line, chain) == [line |-> line, chain |-> chain]

----------------------------------------------------------------------------
(* IR: states, guards, transitions *)

State(task_name, step_name) == [task_name |-> task_name, step_name |-> step_name]

GuardAlways == [kind |-> "always", expression |-> "", duration_ms |-> 0]
GuardCondition(expression) == [kind |-> "condition", expression |-> expression, duration_ms |-> 0]
GuardTimeout(duration_ms) == [kind |-> "timeout", expression |-> "", duration_ms |-> duration_ms]

TimerStart(timer_name, duration_ms) ==
    [timer_name |-> timer_name, operation |-> "start", duration_ms |-> duration_ms]

Transition(from, to, guard, actions, timers) ==
    [from |-> from, to |-> to, guard |-> guard, actions |-> actions, timers |-> timers]

----------------------------------------------------------------------------
(* semantic: build_state_machine *)

PlcError(kind, line, name) == [kind |-> kind, line |-> line, name |-> name]

\* StateMachineBuilder. Every operator below that models a function taking
\* `builder: &mut StateMachineBuilder` yields what the function hands to the
\* builder: the states of its add_state calls, the transitions of its
\* add_transition calls and the errors it pushes, each in call order.
EmptyBuilder == [states |-> <<>>, transitions |-> <<>>, errors |-> <<>>]

RECURSIVE Concat(_)
Concat(seqs) == IF seqs = <<>> THEN <<>> ELSE Head(seqs) \o Concat(Tail(seqs))

\* add_state that pushes the state whether or not it was seen
AllOccurrences(s) == s

\* add_state's `if self.seen_states.insert(key.clone())`: the first
\* occurrence of each state is kept
FirstOccurrences(s) ==
    LET kept == SelectSeq([i \in DOMAIN s |-> i],
                          LAMBDA i : \A j \in 1..(i - 1) : s[j] # s[i])
    IN [k \in DOMAIN kept |-> s[kept[k]]]

\* the builder after the calls of `parts`, one after the other
InOrder(parts) ==
    IF parts = <<>> THEN EmptyBuilder
    ELSE
    [states |-> FirstOccurrences(Concat([i \in DOMAIN parts |-> parts[i].states])),
     transitions |-> Concat([i \in DOMAIN parts |-> parts[i].transitions]),
     errors |-> Concat([i \in DOMAIN parts |-> parts[i].errors])]

add_state(task_name, step_name) ==
    [states |-> <<State(task_name, step_name)>>, transitions |-> <<>>, errors |-> <<>>]

add_transition(from, to, guard, actions, timers) ==
    [states |-> <<>>, transitions |-> <<Transition(from, to, guard, actions, timers)>>,
     errors |-> <<>>]

push_error(e) == [states |-> <<>>, transitions |-> <<>>, errors |-> <<e>>]

action_to_transition_action(a) ==
    [action |-> a.action, target |-> a.target, value |-> a.value]

literal_to_expression(literal) ==
    CASE literal.kind = "boolean" -> literal.value
      [] literal.kind = "number" -> literal.value
      [] literal.kind = "string" -> "\"" \o literal.value \o "\""
      [] literal.kind = "state" -> literal.device \o "." \o literal.state

condition_to_expression(condition) ==
    condition.left \o " "
        \o (IF condition.operator = "eq" THEN "==" ELSE "!=")
        \o " " \o literal_to_expression(condition.right)

wait_to_guard_expression(wait) == condition_to_expression(wait.condition)

\* u64 milliseconds; the values of the model stay far below the saturation point
duration_value_to_ms(duration) ==
    IF duration.unit = "ms" THEN duration.value ELSE duration.value * 1000

duration_to_ms(timeout) == duration_value_to_ms(timeout.duration)

OfKind(statements, kind) == SelectSeq(statements, LAMBDA s : s.statement = kind)

analyze_statements(statements) ==
    [actions |-> MapSeq(action_to_transition_action, OfKind(statements, "action")),
     waits |-> MapSeq(wait_to_guard_expression, OfKind(statements, "wait")),
     gotos |-> OfKind(statements, "goto"),
     timeouts |-> OfKind(statements, "timeout"),
     parallel_blocks |-> OfKind(statements, "parallel"),
     race_blocks |-> OfKind(statements, "race")]

has_control_flow(analyzed) ==
    \/ analyzed.waits # <<>>
    \/ analyzed.gotos # <<>>
    \/ analyzed.parallel_blocks # <<>>
    \/ analyzed.race_blocks # <<>>

\* task_initial_states is a map from task name to State
resolve_task_target(target_task, task_initial_states) ==
    IF target_task \in DOMAIN task_initial_states
    THEN Some(task_initial_states[target_task])
    ELSE None

\* resolve_task_target's side effect: the undefined_reference error
resolve_error(target_task, line, task_initial_states) ==
    IF target_task \in DOMAIN task_initial_states
    THEN EmptyBuilder
    ELSE push_error(PlcError("undefined_reference", line, target_task))

\* `for goto in &analyzed.gotos`: an always edge with the actions
add_goto_transitions(from, gotos, actions, tis) ==
    InOrder([k \in DOMAIN gotos |->
        LET target == resolve_task_target(gotos[k].step, tis)
        IN IF IsSome(target)
           THEN add_transition(from, Unwrap(target), GuardAlways, actions, <<>>)
           ELSE resolve_error(gotos[k].step, gotos[k].line, tis)])

\* add_timeout_transitions that starts no timer
add_timeout_transitions_without_timer(from, timeouts, timer_prefix, tis) ==
    InOrder([timeout_index \in DOMAIN timeouts |->
        LET timeout == timeouts[timeout_index]
            target == resolve_task_target(timeout.target.step, tis)
        IN IF IsSome(target)
           THEN add_transition(from, Unwrap(target), GuardTimeout(duration_to_ms(timeout)),
                               <<>>, <<>>)
           ELSE resolve_error(timeout.target.step, timeout.target.line, tis)])

\* `for (timeout_index, timeout) in analyzed.timeouts`: a timeout edge with
\* no action and one timer start; timer_prefix is the part of the timer name
\* before ".timeout_<n>" (timeout_index is the Rust index + 1)
add_timeout_transitions(from, timeouts, timer_prefix, tis) ==
    InOrder([timeout_index \in DOMAIN timeouts |->
        LET timeout == timeouts[timeout_index]
            target == resolve_task_target(timeout.target.step, tis)
            duration_ms == duration_to_ms(timeout)
        IN IF IsSome(target)
           THEN add_transition(from, Unwrap(target), GuardTimeout(duration_ms), <<>>,
                    <<TimerStart(timer_prefix \o ".timeout_" \o ToString(timeout_index),
                                 duration_ms)>>)
           ELSE resolve_error(timeout.target.step, timeout.target.line, tis)])

\* `for wait_expression in &analyzed.waits`: a condition edge with the actions
\* into the completion target, when there is one
add_wait_transitions(from, completion_target, waits, actions) ==
    IF ~IsSome(completion_target) THEN EmptyBuilder
    ELSE InOrder([k \in DOMAIN waits |->
             add_transition(from, Unwrap(completion_target), GuardCondition(waits[k]),
                            actions, <<>>)])

\* add_default_transition with the timeouts counted as control flow
add_default_transition_unless_timeouts(from, completion_target, analyzed) ==
    IF ~has_control_flow(analyzed) /\ analyzed.timeouts = <<>> /\ IsSome(completion_target)
    THEN add_transition(from, Unwrap(completion_target), GuardAlways,
                        analyzed.actions, <<>>)
    ELSE EmptyBuilder

\* `if !has_control_flow`: the single unconditional edge
add_default_transition(from, completion_target, analyzed) ==
    IF ~has_control_flow(analyzed) /\ IsSome(completion_target)
    THEN add_transition(from, Unwrap(completion_target), GuardAlways,
                        analyzed.actions, <<>>)
    ELSE EmptyBuilder

RECURSIVE build_parallel_block(_, _, _, _, _, _, _, _)
RECURSIVE build_race_block(_, _, _, _, _, _, _, _)
RECURSIVE build_parallel_blocks(_, _, _, _, _, _, _)
RECURSIVE build_race_blocks(_, _, _, _, _, _, _)
RECURSIVE build_parallel_branch(_, _, _, _, _, _, _)
RECURSIVE build_race_branch(_, _, _, _, _, _, _, _)

\* `for (block_index, block) in analyzed.parallel_blocks.iter().enumerate()`
\* (block_index is 1-based here: it is the Rust index + 1)
build_parallel_blocks(task, step_name, source_state, blocks, completion_target, tis, parent_actions) ==
    InOrder([block_index \in DOMAIN blocks |->
        build_parallel_block(task, step_name, source_state, block_index,
                             blocks[block_index], completion_target, tis,
                             parent_actions)])

\* `for (block_index, block) in analyzed.race_blocks.iter().enumerate()`
build_race_blocks(task, step_name, source_state, blocks, completion_target, tis, parent_actions) ==
    InOrder([block_index \in DOMAIN blocks |->
        build_race_block(task, step_name, source_state, block_index,
                         blocks[block_index], completion_target, tis,
                         parent_actions)])

\* build_parallel_branch with the transitions into the join state added
\* before those of the gotos and the timeouts
build_parallel_branch_join_first(task, prefix, timer_prefix, join_state, branch, branch_index, tis) ==
    LET branch_state_name == prefix \o "_branch_" \o ToString(branch_index)
        branch_state == State(task.name, branch_state_name)
        fork_state == State(task.name, prefix \o "_fork")
        analyzed == analyze_statements(branch.statements)
    IN InOrder(<<
           add_state(task.name, branch_state_name),
           add_transition(fork_state, branch_state, GuardAlways, <<>>, <<>>),
           add_wait_transitions(branch_state, Some(join_state), analyzed.waits,
                                analyzed.actions),
           add_goto_transitions(branch_state, analyzed.gotos, analyzed.actions, tis),
           add_timeout_transitions(branch_state, analyzed.timeouts,
               timer_prefix \o "_branch_" \o ToString(branch_index), tis),
           build_parallel_blocks(task, branch_state_name, branch_state,
               analyzed.parallel_blocks, Some(join_state), tis, analyzed.actions),
           build_race_blocks(task, branch_state_name, branch_state,
               analyzed.race_blocks, Some(join_state), tis, analyzed.actions),
           add_default_transition(branch_state, Some(join_state), analyzed)>>)

\* the body of `for (branch_index, branch) in block.branches` of
\* build_parallel_block; prefix is "<step>__parallel_<k>"
build_parallel_branch(task, prefix, timer_prefix, join_state, branch, branch_index, tis) ==
    LET branch_state_name == prefix \o "_branch_" \o ToString(branch_index)
        branch_state == State(task.name, branch_state_name)
        fork_state == State(task.name, prefix \o "_fork")
        analyzed == analyze_statements(branch.statements)
    IN InOrder(<<
           add_state(task.name, branch_state_name),
           add_transition(fork_state, branch_state, GuardAlways, <<>>, <<>>),
           add_goto_transitions(branch_state, analyzed.gotos, analyzed.actions, tis),
           add_timeout_transitions(branch_state, analyzed.timeouts,
               timer_prefix \o "_branch_" \o ToString(branch_index), tis),
           add_wait_transitions(branch_state, Some(join_state), analyzed.waits,
                                analyzed.actions),
           build_parallel_blocks(task, branch_state_name, branch_state,
               analyzed.parallel_blocks, Some(join_state), tis, analyzed.actions),
           build_race_blocks(task, branch_state_name, branch_state,
               analyzed.race_blocks, Some(join_state), tis, analyzed.actions),
           add_default_transition(branch_state, Some(join_state), analyzed)>>)

build_parallel_block(task, step_name, source_state, block_index, block, completion_target, tis, parent_actions) ==
    LET prefix == step_name \o "__parallel_" \o ToString(block_index)
        timer_prefix == task.name \o "." \o step_name \o ".parallel_"
                            \o ToString(block_index)
        fork_state == State(task.name, prefix \o "_fork")
        join_state == State(task.name, prefix \o "_join")
    IN InOrder(<<
           add_state(task.name, fork_state.step_name),
           add_state(task.name, join_state.step_name),
           add_transition(source_state, fork_state, GuardAlways, parent_actions, <<>>),
           InOrder([branch_index \in DOMAIN block.branches |->
               build_parallel_branch(task, prefix, timer_prefix, join_state,
                                     block.branches[branch_index], branch_index, tis)]),
           IF IsSome(completion_target)
           THEN add_transition(join_state, Unwrap(completion_target), GuardAlways,
                               <<>>, <<>>)
           ELSE EmptyBuilder>>)

\* build_race_branch in which every branch completes into the target of
\* what encloses the block, whatever its then: goto
build_race_branch_without_then_goto(task, prefix, timer_prefix, completion_target, branch, branch_index, tis, decision_state) ==
    LET branch_state_name == prefix \o "_branch_" \o ToString(branch_index)
        branch_state == State(task.name, branch_state_name)
        analyzed == analyze_statements(branch.statements)
    IN InOrder(<<
           add_state(task.name, branch_state_name),
           add_transition(decision_state, branch_state, GuardAlways, <<>>, <<>>),
           IF IsSome(branch.then_goto)
           THEN resolve_error(Unwrap(branch.then_goto).step,
                              Unwrap(branch.then_goto).line, tis)
           ELSE EmptyBuilder,
           add_goto_transitions(branch_state, analyzed.gotos, analyzed.actions, tis),
           add_timeout_transitions(branch_state, analyzed.timeouts,
               timer_prefix \o "_branch_" \o ToString(branch_index), tis),
           add_wait_transitions(branch_state, completion_target,
                                analyzed.waits, analyzed.actions),
           build_parallel_blocks(task, branch_state_name, branch_state,
               analyzed.parallel_blocks, completion_target, tis, analyzed.actions),
           build_race_blocks(task, branch_state_name, branch_state,
               analyzed.race_blocks, completion_target, tis, analyzed.actions),
           add_default_transition(branch_state, completion_target, analyzed)>>)

\* the body of `for (branch_index, branch) in block.branches` of
\* build_race_block; prefix is "<step>__race_<k>"
build_race_branch(task, prefix, timer_prefix, completion_target, branch, branch_index, tis, decision_state) ==
    LET branch_state_name == prefix \o "_branch_" \o ToString(branch_index)
        branch_state == State(task.name, branch_state_name)
        analyzed == analyze_statements(branch.statements)
        then_target == IF IsSome(branch.then_goto)
                       THEN resolve_task_target(Unwrap(branch.then_goto).step, tis)
                       ELSE None
        branch_completion_target ==
            IF IsSome(then_target) THEN then_target ELSE completion_target
    IN InOrder(<<
           add_state(task.name, branch_state_name),
           add_transition(decision_state, branch_state, GuardAlways, <<>>, <<>>),
           IF IsSome(branch.then_goto)
           THEN resolve_error(Unwrap(branch.then_goto).step,
                              Unwrap(branch.then_goto).line, tis)
           ELSE EmptyBuilder,
           add_goto_transitions(branch_state, analyzed.gotos, analyzed.actions, tis),
           add_timeout_transitions(branch_state, analyzed.timeouts,
               timer_prefix \o "_branch_" \o ToString(branch_index), tis),
           add_wait_transitions(branch_state, branch_completion_target,
                                analyzed.waits, analyzed.actions),
           build_parallel_blocks(task, branch_state_name, branch_state,
               analyzed.parallel_blocks, branch_completion_target, tis,
               analyzed.actions),
           build_race_blocks(task, branch_state_name, branch_state,
               analyzed.race_blocks, branch_completion_target, tis,
               analyzed.actions),
           add_default_transition(branch_state, branch_completion_target,
                                  analyzed)>>)

build_race_block(task, step_name, source_state, block_index, block, completion_target, tis, parent_actions) ==
    LET prefix == step_name \o "__race_" \o ToString(block_index)
        timer_prefix == task.name \o "." \o step_name \o ".race_"
                            \o ToString(block_index)
        decision_state == State(task.name, prefix \o "_decision")
    IN InOrder(<<
           add_state(task.name, decision_state.step_name),
           add_transition(source_state, decision_state, GuardAlways,
                          parent_actions, <<>>),
           InOrder([branch_index \in DOMAIN block.branches |->
               build_race_branch(task, prefix, timer_prefix, completion_target,
                                 block.branches[branch_index], branch_index, tis,
                                 decision_state)])>>)

\* the HashMap task name -> initial State filled by the first loop: a later
\* task of the same name replaces the entry
task_initial_states_of(tasks) ==
    LET with_steps == {i \in DOMAIN tasks : tasks[i].steps # <<>>}
        last(name) == CHOOSE i \in with_steps :
                          /\ tasks[i].name = name
                          /\ \A j \in with_steps : tasks[j].name = name => j <= i
    IN [name \in {tasks[i].name : i \in with_steps} |->
            State(name, tasks[last(name)].steps[1].name)]

add_step_states(task_name, steps) ==
    InOrder([j \in DOMAIN steps |-> add_state(task_name, steps[j].name)])

\* first loop of build_state_machine_from_ast: empty tasks, duplicate names,
\* one state per declared step
register_tasks(tasks) ==
    InOrder([i \in DOMAIN tasks |->
        LET task == tasks[i]
            seen == {tasks[j].name : j \in {k \in 1..(i - 1) : tasks[k].steps # <<>>}}
        IN IF task.steps = <<>>
           THEN push_error(PlcError("semantic", task.line, task.name))
           ELSE InOrder(<<
                    IF task.name \in seen
                    THEN push_error(PlcError("duplicate_definition", task.line,
                                             task.name))
                    ELSE EmptyBuilder,
                    add_step_states(task.name, task.steps)>>)])

\* task.on_complete_line.unwrap_or(task.line)
on_complete_line_of(task) ==
    IF IsSome(task.on_complete_line) THEN Unwrap(task.on_complete_line) ELSE task.line

\* second loop: the errors of the on_complete targets that do not resolve
on_complete_errors(tasks, tis) ==
    InOrder([i \in DOMAIN tasks |->
        IF IsSome(tasks[i].on_complete)
               /\ Unwrap(tasks[i].on_complete).on_complete = "goto"
        THEN resolve_error(Unwrap(tasks[i].on_complete).step,
                           on_complete_line_of(tasks[i]), tis)
        ELSE EmptyBuilder])

on_complete_target(task, tis) ==
    IF IsSome(task.on_complete) /\ Unwrap(task.on_complete).on_complete = "goto"
    THEN resolve_task_target(Unwrap(task.on_complete).step, tis)
    ELSE None

\* the HashMap task name -> Option<State>; a later task of the same name
\* replaces the entry
task_on_complete_targets_of(tasks, tis) ==
    LET last(name) == CHOOSE i \in DOMAIN tasks :
                          /\ tasks[i].name = name
                          /\ \A j \in DOMAIN tasks : tasks[j].name = name => j <= i
    IN [name \in {tasks[i].name : i \in DOMAIN tasks} |->
            on_complete_target(tasks[last(name)], tis)]

completion_target_for_step(task, step_index, task_on_complete_targets) ==
    IF step_index < Len(task.steps)
    THEN Some(State(task.name, task.steps[step_index + 1].name))
    ELSE IF task.name \in DOMAIN task_on_complete_targets
         THEN task_on_complete_targets[task.name]
         ELSE None

\* the body of `for (step_index, step) in task.steps.iter().enumerate()`
build_step(task, step_index, tis, task_on_complete_targets) ==
    LET step == task.steps[step_index]
        from_state == State(task.name, step.name)
        completion_target ==
            completion_target_for_step(task, step_index, task_on_complete_targets)
        analyzed == analyze_statements(step.statements)
    IN InOrder(<<
           build_parallel_blocks(task, step.name, from_state,
               analyzed.parallel_blocks, completion_target, tis, analyzed.actions),
           build_race_blocks(task, step.name, from_state, analyzed.race_blocks,
               completion_target, tis, analyzed.actions),
           add_goto_transitions(from_state, analyzed.gotos, analyzed.actions, tis),
           add_timeout_transitions(from_state, analyzed.timeouts,
               task.name \o "." \o step.name, tis),
           add_wait_transitions(from_state, completion_target, analyzed.waits,
                                analyzed.actions),
           add_default_transition(from_state, completion_target, analyzed)>>)

build_steps(task, tis, targets) ==
    InOrder([step_index \in DOMAIN task.steps |->
                build_step(task, step_index, tis, targets)])

build_tasks(tasks, tis, targets) ==
    InOrder([i \in DOMAIN tasks |-> build_steps(tasks[i], tis, targets)])

BuildErr(errors) ==
    [ok |-> FALSE, states |-> <<>>, transitions |-> <<>>,
     initial |-> State("", ""), errors |-> errors]

build_state_machine_from_ast(tasks) ==
    IF tasks = <<>> THEN BuildErr(<<PlcError("semantic", 1, "[tasks]")>>)
    ELSE
    LET b1 == register_tasks(tasks)
        with_steps == {i \in DOMAIN tasks : tasks[i].steps # <<>>}
    IN IF with_steps = {}
       THEN BuildErr(Append(b1.errors, PlcError("semantic", 1, "initial")))
       ELSE
       LET first == CHOOSE i \in with_steps : \A j \in with_steps : i <= j
           initial == State(tasks[first].name, tasks[first].steps[1].name)
           tis == task_initial_states_of(tasks)
           targets == task_on_complete_targets_of(tasks, tis)
           b3 == InOrder(<<b1, on_complete_errors(tasks, tis),
                           build_tasks(tasks, tis, targets)>>)
       IN IF b3.errors = <<>>
          THEN [ok |-> TRUE, states |-> b3.states, transitions |-> b3.transitions,
                initial |-> initial, errors |-> <<>>]
          ELSE BuildErr(b3.errors)

build_state_machine(p) == build_state_machine_from_ast(p.tasks)

----------------------------------------------------------------------------
(* verification/safety: the model *)

\* HashMap::insert
MapInsert(m, k, v) == [x \in (DOMAIN m) \cup {k} |-> IF x = k THEN v ELSE m[x]]

EmptyMap == [x \in {} |-> 0]

\* position of the first element equal to x, 0 when absent (indices are 1-based)
IndexOf(s, x) ==
    IF x \in Range(s) THEN CHOOSE i \in DOMAIN s : s[i] = x /\ \A j \in 1..(i - 1) : s[j] # x
    ELSE 0

ensure_device_state(domain, state_name) ==
    IF state_name \in Range(domain.states) THEN domain
    ELSE [domain EXCEPT !.states = Append(@, state_name)]

device_domain(device) ==
    LET states == IF device.device_type = "cylinder"
                  THEN <<"extended", "retracted">>
                  ELSE <<"on", "off">>
        default_state_name == IF device.device_type = "cylinder" THEN "retracted" ELSE "off"
    IN [name |-> device.name, states |-> states,
        default_state |-> IndexOf(states, default_state_name)]

\* device_index: a later device of the same name replaces the entry
device_index_of(topology_devices, name) ==
    IF \E i \in DOMAIN topology_devices : topology_devices[i].name = name
    THEN CHOOSE i \in DOMAIN topology_devices :
             /\ topology_devices[i].name = name
             /\ \A j \in DOMAIN topology_devices :
                    topology_devices[j].name = name => j <= i
    ELSE 0

\* second loop of collect_device_domains: the states the rules name
RECURSIVE ensure_rule_states(_, _, _)
ensure_rule_states(devices, topology_devices, rules) ==
    IF rules = <<>> THEN devices
    ELSE LET rule == Head(rules)
             left_device == device_index_of(topology_devices, rule.left.device)
             d1 == IF left_device = 0 THEN devices
                   ELSE [devices EXCEPT ![left_device] =
                            ensure_device_state(@, rule.left.state)]
             right_device == device_index_of(topology_devices, rule.right.device)
             d2 == IF left_device = 0 \/ right_device = 0 THEN d1
                   ELSE [d1 EXCEPT ![right_device] =
                            ensure_device_state(@, rule.right.state)]
         IN ensure_rule_states(d2, topology_devices, Tail(rules))

collect_device_domains(p, constraints) ==
    ensure_rule_states(MapSeq(device_domain, p.topology.devices),
                       p.topology.devices, constraints.safety)

action_effect(action) ==
    CASE action.action = "extend" -> Some(<<action.target, "extended">>)
      [] action.action = "retract" -> Some(<<action.target, "retracted">>)
      [] action.action = "set" -> Some(<<action.target, action.value>>)
      [] OTHER -> None

\* effects: device id -> state id, a later action on a device replaces the entry
RECURSIVE transition_effects(_, _, _)
transition_effects(actions, topology_devices, devices) ==
    IF actions = <<>> THEN EmptyMap
    ELSE LET n == Len(actions)
             rest == transition_effects(SubSeq(actions, 1, n - 1), topology_devices, devices)
             effect == action_effect(actions[n])
             device_id == IF IsSome(effect)
                          THEN device_index_of(topology_devices, Unwrap(effect)[1])
                          ELSE 0
             state_id == IF device_id = 0 THEN 0
                         ELSE IndexOf(devices[device_id].states, Unwrap(effect)[2])
         IN IF state_id = 0 THEN rest ELSE MapInsert(rest, device_id, state_id)

guard_name(guard) == guard.kind

action_name(action) ==
    CASE action.action = "extend" -> "extend " \o action.target
      [] action.action = "retract" -> "retract " \o action.target
      [] action.action = "set" -> "set " \o action.target \o " " \o action.value
      [] OTHER -> "log \"" \o action.target \o "\""

RECURSIVE join_texts(_)
join_texts(texts) ==
    IF texts = <<>> THEN ""
    ELSE IF Len(texts) = 1 THEN texts[1]
    ELSE texts[1] \o ", " \o join_texts(Tail(texts))

transition_label(transition) ==
    IF transition.actions = <<>> THEN guard_name(transition.guard)
    ELSE guard_name(transition.guard) \o "; actions: "
             \o join_texts(MapSeq(action_name, transition.actions))

NoOutgoingLabel == "no outgoing edge, stay in the current state"

is_parallel_branch_state(state) ==
    Contains(state.step_name, "__parallel_") /\ Contains(state.step_name, "_branch_")

is_parallel_join_state(state) ==
    Contains(state.step_name, "__parallel_") /\ EndsWith(state.step_name, "_join")

is_branch_join_edge(states, edge) ==
    is_parallel_branch_state(states[edge.from]) /\ is_parallel_join_state(states[edge.to])

\* first loop of merge_parallel_join_effects: the effects of the edges that
\* enter join state `to` from a branch state, a later edge replacing the
\* entry an earlier one made for the same device
join_effects(states, edges, to) ==
    LET entering == {i \in DOMAIN edges :
                        is_branch_join_edge(states, edges[i]) /\ edges[i].to = to}
        setting(x) == {i \in entering : x \in DOMAIN edges[i].effects}
        last(x) == CHOOSE i \in setting(x) : \A j \in setting(x) : j <= i
    IN [x \in UNION {DOMAIN edges[i].effects : i \in entering} |->
           edges[last(x)].effects[x]]

merge_parallel_join_effects(states, edges) ==
    [i \in DOMAIN edges |->
        IF is_branch_join_edge(states, edges[i])
        THEN [edges[i] EXCEPT !.effects = join_effects(states, edges, edges[i].to)]
        ELSE edges[i]]

ModelEdge(from, to, effects, label) ==
    [from |-> from, to |-> to, effects |-> effects, label |-> label]

\* the edges of the transitions whose endpoints are both in the state list
transition_edges(transitions, states, topology_devices, devices) ==
    LET kept == SelectSeq(transitions,
                    LAMBDA t : IndexOf(states, t.from) # 0 /\ IndexOf(states, t.to) # 0)
    IN [i \in DOMAIN kept |->
           ModelEdge(IndexOf(states, kept[i].from), IndexOf(states, kept[i].to),
                     transition_effects(kept[i].actions, topology_devices, devices),
                     transition_label(kept[i]))]

\* one synthetic self-loop per state without outgoing edge, in state order
add_self_loops(edges, state_count) ==
    LET stuck == SelectSeq([s \in 1..state_count |-> s],
                     LAMBDA s : \A i \in DOMAIN edges : edges[i].from # s)
    IN edges \o [k \in DOMAIN stuck |->
                    ModelEdge(stuck[k], stuck[k], EmptyMap, NoOutgoingLabel)]

\* outgoing[state]: the ids of the edges leaving it, in edge order
outgoing_of(edges, state_count) ==
    [s \in 1..state_count |->
        SelectSeq([i \in DOMAIN edges |-> i], LAMBDA i : edges[i].from = s)]

\* states reachable from `frontier` along the edges (frontier included)
RECURSIVE ReachableFrom(_, _, _)
ReachableFrom(edges, seen, frontier) ==
    IF frontier = {} THEN seen
    ELSE LET next == {edges[i].to : i \in {j \in DOMAIN edges : edges[j].from \in frontier}}
         IN ReachableFrom(edges, seen \cup frontier, next \ (seen \cup frontier))

\* kosaraju_scc: the strongly connected component of state s
Component(edges, state_count, s) ==
    {t \in 1..state_count :
        /\ t \in ReachableFrom(edges, {}, {s})
        /\ s \in ReachableFrom(edges, {}, {t})}

ComponentHasCycle(edges, component) ==
    \/ Cardinality(component) > 1
    \/ \E i \in DOMAIN edges : edges[i].from \in component /\ edges[i].to = edges[i].from

SetMax(S) == IF S = {} THEN 0 ELSE CHOOSE x \in S : \A y \in S : y <= x

\* Iterator::min of a collection that is not empty
SetMin(S) == CHOOSE x \in S : \A y \in S : x <= y

\* scc_minimum_depth with `component.len()` for `component.len() + 1`
scc_minimum_depth_of_the_size(state_count, edges) ==
    IF state_count = 0 THEN 1
    ELSE SetMax({Cardinality(Component(edges, state_count, s)) :
                    s \in {t \in 1..state_count :
                              ComponentHasCycle(edges, Component(edges, state_count, t))}})

scc_minimum_depth(state_count, edges) ==
    IF state_count = 0 THEN 1
    ELSE SetMax({Cardinality(Component(edges, state_count, s)) + 1 :
                    s \in {t \in 1..state_count :
                              ComponentHasCycle(edges, Component(edges, state_count, t))}})

from_inputs(p, constraints, state_machine) ==
    LET states == IF state_machine.states = <<>> THEN <<state_machine.initial>>
                  ELSE state_machine.states
        initial_state == Max(IndexOf(states, state_machine.initial), 1)
        devices == collect_device_domains(p, constraints)
        edges0 == transition_edges(state_machine.transitions, states,
                                   p.topology.devices, devices)
        edges1 == add_self_loops(edges0, Len(states))
        edges == merge_parallel_join_effects(states, edges1)
        max_scc_depth == scc_minimum_depth(Len(states), edges)
    IN [states |-> states,
        initial_state |-> initial_state,
        edges |-> edges,
        outgoing |-> outgoing_of(edges1, Len(states)),
        devices |-> devices,
        suggested_depth |-> Max(Max(Len(states), max_scc_depth), 1),
        max_scc_depth |-> max_scc_depth]

\* build_depth_plan that never records a truncation
build_depth_plan_untruncated(m, cfg) ==
    [effective_depth |->
         Max(IF IsSome(cfg.bmc_max_depth) THEN Unwrap(cfg.bmc_max_depth)
             ELSE m.suggested_depth, 1),
     warnings |-> <<>>,
     truncated |-> FALSE]

build_depth_plan(m, cfg) ==
    LET target_depth == m.suggested_depth
        user_limit == cfg.bmc_max_depth
        truncated == IsSome(user_limit) /\ Unwrap(user_limit) < target_depth
        effective_depth == IF IsSome(user_limit) THEN Unwrap(user_limit) ELSE target_depth
        warnings ==
            IF ~truncated THEN <<>>
            ELSE IF m.max_scc_depth > 0 /\ Unwrap(user_limit) < m.max_scc_depth
                 THEN <<[warning |-> "scc", bmc_max_depth |-> Unwrap(user_limit),
                         depth |-> m.max_scc_depth]>>
                 ELSE <<[warning |-> "states", bmc_max_depth |-> Unwrap(user_limit),
                         depth |-> target_depth]>>
    IN [effective_depth |-> Max(effective_depth, 1),
        warnings |-> warnings,
        truncated |-> truncated]

bind_rule(m, topology_devices, rule) ==
    LET left_device == device_index_of(topology_devices, rule.left.device)
        right_device == device_index_of(topology_devices, rule.right.device)
        left_state == IF left_device = 0 THEN 0
                      ELSE IndexOf(m.devices[left_device].states, rule.left.state)
        right_state == IF right_device = 0 THEN 0
                       ELSE IndexOf(m.devices[right_device].states, rule.right.state)
    IN IF left_device = 0 \/ right_device = 0 \/ left_state = 0 \/ right_state = 0
       THEN None
       ELSE Some([left_device |-> left_device, left_state |-> left_state,
                  right_device |-> right_device, right_state |-> right_state])

ConcreteState(control_state, device_states) ==
    [control_state |-> control_state, device_states |-> device_states]

initial_concrete_state(m) ==
    ConcreteState(m.initial_state, [i \in DOMAIN m.devices |-> m.devices[i].default_state])

\* apply_edge that moves the control state and leaves the devices alone
apply_edge_without_effects(edge, current) ==
    ConcreteState(edge.to, current.device_states)

apply_edge(edge, current) ==
    ConcreteState(edge.to,
        [d \in DOMAIN current.device_states |->
            IF d \in DOMAIN edge.effects THEN edge.effects[d]
            ELSE current.device_states[d]])

conflicts(state, rule) ==
    /\ state.device_states[rule.left_device] = rule.left_state
    /\ state.device_states[rule.right_device] = rule.right_state

state_name(state) == state.task_name \o "." \o state.step_name

\* SearchNode; parent and via_edge are 0 for None (ids are 1-based)
SearchNode(state, depth, parent, via_edge) ==
    [state |-> state, depth |-> depth, parent |-> parent, via_edge |-> via_edge]

\* the node ids from the root to terminal_node
RECURSIVE path_order(_, _)
path_order(search_nodes, node_id) ==
    IF node_id = 0 THEN <<>>
    ELSE Append(path_order(search_nodes, search_nodes[node_id].parent), node_id)

\* render_path: the lines of the counterexample, and the ids of the edges
\* they render (via_edge of every node after the root)
render_path(m, search_nodes, terminal_node, rule) ==
    LET order == path_order(search_nodes, terminal_node)
        edge_of(k) ==
            IF search_nodes[order[k]].via_edge # 0 THEN search_nodes[order[k]].via_edge
            ELSE m.outgoing[search_nodes[order[k - 1]].state.control_state][1]
        edge_line(k) ==
            [line |-> "edge",
             from |-> state_name(m.states[search_nodes[order[k - 1]].state.control_state]),
             label |-> m.edges[edge_of(k)].label,
             to |-> state_name(m.states[search_nodes[order[k]].state.control_state])]
        conflict_state == search_nodes[terminal_node].state
    IN [lines |->
            <<[line |-> "initial",
               state |-> state_name(m.states[search_nodes[order[1]].state.control_state])]>>
            \o [k \in 1..(Len(order) - 1) |-> edge_line(k + 1)]
            \o <<[line |-> "conflict",
                  state |-> state_name(m.states[conflict_state.control_state]),
                  left |-> m.devices[rule.left_device].name \o "."
                              \o m.devices[rule.left_device].states[rule.left_state],
                  right |-> m.devices[rule.right_device].name \o "."
                              \o m.devices[rule.right_device].states[rule.right_state]]>>,
        edge_ids |-> [k \in 1..(Len(order) - 1) |-> edge_of(k + 1)]]

\* analyze_rule, `if node.depth == max_depth`: is some successor unknown?
frontier_has_unknown(m, known, node) ==
    \E k \in DOMAIN m.outgoing[node.state.control_state] :
        apply_edge(m.edges[m.outgoing[node.state.control_state][k]], node.state)
            \notin DOMAIN known

\* expand_node with the visited set keyed by control state alone
RECURSIVE expand_node_by_control_state(_, _, _, _, _)
expand_node_by_control_state(m, search, node_id, edge_ids, k) ==
    IF k > Len(edge_ids) THEN search
    ELSE LET node == search.nodes[node_id]
             next_state == apply_edge(m.edges[edge_ids[k]], node.state)
             next_depth == node.depth + 1
             known == \E s \in DOMAIN search.shortest_depth :
                          s.control_state = next_state.control_state
             search1 ==
                 IF known THEN search
                 ELSE [nodes |-> Append(search.nodes,
                                     SearchNode(next_state, next_depth, node_id, edge_ids[k])),
                       queue |-> Append(search.queue, Len(search.nodes) + 1),
                       shortest_depth |-> MapInsert(search.shortest_depth, next_state,
                                                    next_depth)]
         IN expand_node_by_control_state(m, search1, node_id, edge_ids, k + 1)

\* expand_node that puts the new nodes at the head of the queue
RECURSIVE expand_node_depth_first(_, _, _, _, _)
expand_node_depth_first(m, search, node_id, edge_ids, k) ==
    IF k > Len(edge_ids) THEN search
    ELSE LET node == search.nodes[node_id]
             next_state == apply_edge(m.edges[edge_ids[k]], node.state)
             next_depth == node.depth + 1
             known == /\ next_state \in DOMAIN search.shortest_depth
                      /\ search.shortest_depth[next_state] <= next_depth
             search1 ==
                 IF known THEN search
                 ELSE [nodes |-> Append(search.nodes,
                                     SearchNode(next_state, next_depth, node_id, edge_ids[k])),
                       queue |-> <<Len(search.nodes) + 1>> \o search.queue,
                       shortest_depth |-> MapInsert(search.shortest_depth, next_state,
                                                    next_depth)]
         IN expand_node_depth_first(m, search1, node_id, edge_ids, k + 1)

\* expand_node without the test on shortest_depth: every successor is pushed
RECURSIVE expand_node_of_every_successor(_, _, _, _, _)
expand_node_of_every_successor(m, search, node_id, edge_ids, k) ==
    IF k > Len(edge_ids) THEN search
    ELSE LET node == search.nodes[node_id]
             next_state == apply_edge(m.edges[edge_ids[k]], node.state)
             next_depth == node.depth + 1
             search1 ==
                 [nodes |-> Append(search.nodes,
                                SearchNode(next_state, next_depth, node_id, edge_ids[k])),
                  queue |-> Append(search.queue, Len(search.nodes) + 1),
                  shortest_depth |-> MapInsert(search.shortest_depth, next_state,
                                               next_depth)]
         IN expand_node_of_every_successor(m, search1, node_id, edge_ids, k + 1)

\* analyze_rule, the loop `for &edge_id in outgoing` that expands a node;
\* search is [nodes, queue, shortest_depth]
RECURSIVE expand_node(_, _, _, _, _)
expand_node(m, search, node_id, edge_ids, k) ==
    IF k > Len(edge_ids) THEN search
    ELSE LET node == search.nodes[node_id]
             next_state == apply_edge(m.edges[edge_ids[k]], node.state)
             next_depth == node.depth + 1
             known == /\ next_state \in DOMAIN search.shortest_depth
                      /\ search.shortest_depth[next_state] <= next_depth
             search1 ==
                 IF known THEN search
                 ELSE [nodes |-> Append(search.nodes,
                                     SearchNode(next_state, next_depth, node_id, edge_ids[k])),
                       queue |-> Append(search.queue, Len(search.nodes) + 1),
                       shortest_depth |-> MapInsert(search.shortest_depth, next_state,
                                                    next_depth)]
         IN expand_node(m, search1, node_id, edge_ids, k + 1)

----------------------------------------------------------------------------
(* semantic: build_constraint_set, the safety rules (same order as the AST) *)

SafetyConstraint(line, left_device, left_state, relation, right_device, right_state) ==
    [line |-> line,
     left |-> [device |-> left_device, state |-> left_state],
     relation |-> relation,
     right |-> [device |-> right_device, state |-> right_state]]

constraint_set(p) ==
    [safety |-> MapSeq(LAMBDA rule : [left |-> rule.left, relation |-> rule.relation,
                                      right |-> rule.right],
                       p.constraints.safety)]

----------------------------------------------------------------------------
(* semantic: build_topology_graph *)

\* Result<T, Vec<E>> of a builder
Ok(value) == [built |-> TRUE, ok |-> TRUE, value |-> Some(value), errors |-> <<>>]

Err(errors) == [built |-> TRUE, ok |-> FALSE, value |-> None, errors |-> errors]

\* connection_type_for that knows the wiring of valves and nothing else
connection_type_for_valves_only(from, to) ==
    IF <<from, to>> = <<"solenoid_valve", "cylinder">> THEN Some("pneumatic")
    ELSE IF <<from, to>> = <<"digital_output", "solenoid_valve">> THEN Some("electrical")
    ELSE None

\* the compatibility table: the ConnectionType of an upstream kind and a
\* downstream kind, None for every other pair
connection_type_for(from, to) ==
    CASE <<from, to>> \in {<<"digital_output", "solenoid_valve">>,
                           <<"digital_output", "motor">>,
                           <<"digital_input", "sensor">>} -> Some("electrical")
      [] <<from, to>> = <<"solenoid_valve", "cylinder">> -> Some("pneumatic")
      [] <<from, to>> \in {<<"digital_input", "digital_input">>,
                           <<"digital_output", "digital_output">>} -> Some("logical")
      [] OTHER -> None

\* TopologyGraph: the nodes in the order of add_device, the edges in the
\* order of add_connection; an edge names its ends by node index
TopologyGraph(devices, edges) == [devices |-> devices, edges |-> edges]

\* build_topology_from_ast that returns at the first error
build_topology_from_ast_until_first_error(topology) ==
    LET devices == topology.devices
        kind_of(i) == devices[i].device_type
        target_name(i) == Unwrap(devices[i].attributes.connected_to)
        target_node(i) == device_index_of(devices, target_name(i))
        current_node(i) == device_index_of(devices, devices[i].name)
        connection(i) == connection_type_for(kind_of(target_node(i)),
                                             kind_of(current_node(i)))
        errors_of(i) ==
            IF ~IsSome(devices[i].attributes.connected_to) THEN <<>>
            ELSE IF target_node(i) = 0
            THEN <<PlcError("undefined_reference", devices[i].line, target_name(i))>>
            ELSE IF ~IsSome(connection(i))
            THEN <<PlcError("type_mismatch", devices[i].line, kind_of(target_node(i)))>>
            ELSE <<>>
        errors == Concat([i \in DOMAIN devices |-> errors_of(i)])
    IN IF errors = <<>>
       THEN Ok(TopologyGraph(
                [i \in DOMAIN devices |->
                    [name |-> devices[i].name, kind |-> kind_of(i)]],
                Concat([i \in DOMAIN devices |->
                    IF IsSome(devices[i].attributes.connected_to)
                    THEN <<[from |-> target_node(i), to |-> current_node(i),
                            kind |-> Unwrap(connection(i))]>>
                    ELSE <<>>])))
       ELSE Err(<<Head(errors)>>)

\* device_nodes is the HashMap name -> DeviceNode: device_index_of gives the
\* node of a name, that of the last device declared with it.
\* ast_type_to_ir_kind sends each DeviceType to the DeviceKind of the same
\* name.
build_topology_from_ast(topology) ==
    LET devices == topology.devices
        kind_of(i) == devices[i].device_type
        target_name(i) == Unwrap(devices[i].attributes.connected_to)
        target_node(i) == device_index_of(devices, target_name(i))
        current_node(i) == device_index_of(devices, devices[i].name)
        connection(i) == connection_type_for(kind_of(target_node(i)),
                                             kind_of(current_node(i)))
        errors_of(i) ==
            IF ~IsSome(devices[i].attributes.connected_to) THEN <<>>
            ELSE IF target_node(i) = 0
            THEN <<PlcError("undefined_reference", devices[i].line, target_name(i))>>
            ELSE IF ~IsSome(connection(i))
            THEN <<PlcError("type_mismatch", devices[i].line, kind_of(target_node(i)))>>
            ELSE <<>>
        edges_of(i) ==
            IF /\ IsSome(devices[i].attributes.connected_to)
               /\ target_node(i) # 0
               /\ IsSome(connection(i))
            THEN <<[from |-> target_node(i), to |-> current_node(i),
                    kind |-> Unwrap(connection(i))]>>
            ELSE <<>>
        errors == Concat([i \in DOMAIN devices |-> errors_of(i)])
    IN IF errors = <<>>
       THEN Ok(TopologyGraph(
                [i \in DOMAIN devices |->
                    [name |-> devices[i].name, kind |-> kind_of(i)]],
                Concat([i \in DOMAIN devices |-> edges_of(i)])))
       ELSE Err(errors)

build_topology_graph(p) == build_topology_from_ast(p.topology)

----------------------------------------------------------------------------
(* semantic: build_constraint_set *)

\* the HashMap name -> DeviceKind; a later device of the same name replaces
\* the entry
collect_device_kinds(topology) ==
    [name \in {topology.devices[i].name : i \in DOMAIN topology.devices} |->
        topology.devices[device_index_of(topology.devices, name)].device_type]

default_states_for_kind(kind) ==
    IF kind = "cylinder" THEN {"extended", "retracted"} ELSE {"on", "off"}

\* the HashMap name -> HashSet of state names: the default states of every
\* declared device, and for every detects attribute the state it names,
\* entered under the device it names
collect_known_states(topology, device_kinds) ==
    LET detecting(name) ==
            {i \in DOMAIN topology.devices :
                /\ IsSome(topology.devices[i].attributes.detects)
                /\ Unwrap(topology.devices[i].attributes.detects).device = name}
        detected == {Unwrap(topology.devices[i].attributes.detects).device :
                        i \in {j \in DOMAIN topology.devices :
                                  IsSome(topology.devices[j].attributes.detects)}}
    IN [name \in (DOMAIN device_kinds) \cup detected |->
           (IF name \in DOMAIN device_kinds
            THEN default_states_for_kind(device_kinds[name]) ELSE {})
           \cup {Unwrap(topology.devices[i].attributes.detects).state :
                    i \in detecting(name)}]

\* the HashMap task name -> HashSet of step names; a later task of the same
\* name replaces the entry
collect_task_steps(tasks) ==
    LET last(name) == CHOOSE i \in DOMAIN tasks :
                          /\ tasks[i].name = name
                          /\ \A j \in DOMAIN tasks : tasks[j].name = name => j <= i
    IN [name \in {tasks[i].name : i \in DOMAIN tasks} |->
           {tasks[last(name)].steps[j].name : j \in DOMAIN tasks[last(name)].steps}]

\* validate_state_reference that accepts every state of a declared device
validate_state_reference_by_device(state, line, device_kinds, known_states) ==
    IF state.device \notin DOMAIN device_kinds
    THEN <<PlcError("undefined_reference", line, state.device)>>
    ELSE <<>>

\* the errors validate_state_reference pushes
validate_state_reference(state, line, device_kinds, known_states) ==
    IF state.device \notin DOMAIN device_kinds
    THEN <<PlcError("undefined_reference", line, state.device)>>
    ELSE IF state.state = ""
    THEN <<PlcError("semantic", line, state.device)>>
    ELSE IF state.device \notin DOMAIN known_states
    THEN <<>>
    ELSE IF /\ known_states[state.device] # {}
            /\ state.state \notin known_states[state.device]
    THEN <<PlcError("semantic", line, state.device \o "." \o state.state)>>
    ELSE <<>>

\* the errors validate_device_reference pushes
validate_device_reference(device_name, line, device_kinds) ==
    IF device_name \notin DOMAIN device_kinds
    THEN <<PlcError("undefined_reference", line, device_name)>>
    ELSE <<>>

\* the errors validate_timing_target pushes
validate_timing_target(target, line, task_steps) ==
    IF target.task \notin DOMAIN task_steps
    THEN <<PlcError("undefined_reference", line, target.task)>>
    ELSE IF target.scope = "step" /\ target.step \notin task_steps[target.task]
    THEN <<PlcError("semantic", line, target.task \o "." \o target.step)>>
    ELSE <<>>

\* ConstraintSet: SafetyRule, TimingRule (map_timing_scope and
\* map_timing_relation keep the scope and the relation) and CausalityChain
\* of every constraint, in the order of the AST
ConstraintSet(constraints) ==
    [safety |-> [i \in DOMAIN constraints.safety |->
                    [left |-> constraints.safety[i].left,
                     relation |-> constraints.safety[i].relation,
                     right |-> constraints.safety[i].right]],
     timing |-> [i \in DOMAIN constraints.timing |->
                    [scope |-> constraints.timing[i].target,
                     relation |-> constraints.timing[i].relation,
                     duration_ms |-> duration_value_to_ms(constraints.timing[i].duration)]],
     causality |-> [i \in DOMAIN constraints.causality |->
                       [devices |-> [k \in DOMAIN constraints.causality[i].chain |->
                                        constraints.causality[i].chain[k].device]]]]

build_constraint_set_from_ast(topology, constraints, tasks) ==
    LET device_kinds == collect_device_kinds(topology)
        known_states == collect_known_states(topology, device_kinds)
        task_steps == collect_task_steps(tasks)
        errors ==
            Concat([i \in DOMAIN constraints.safety |->
                validate_state_reference(constraints.safety[i].left,
                    constraints.safety[i].line, device_kinds, known_states)
                \o validate_state_reference(constraints.safety[i].right,
                       constraints.safety[i].line, device_kinds, known_states)])
            \o Concat([i \in DOMAIN constraints.timing |->
                   validate_timing_target(constraints.timing[i].target,
                       constraints.timing[i].line, task_steps)])
            \o Concat([i \in DOMAIN constraints.causality |->
                   Concat([k \in DOMAIN constraints.causality[i].chain |->
                       validate_device_reference(constraints.causality[i].chain[k].device,
                           constraints.causality[i].line, device_kinds)])])
    IN IF errors = <<>> THEN Ok(ConstraintSet(constraints)) ELSE Err(errors)

build_constraint_set(p) ==
    build_constraint_set_from_ast(p.topology, p.constraints, p.tasks)

----------------------------------------------------------------------------
(* verification: timing *)

\* TimingDiagnostic: the line, the constraint text, and the two numbers its
\* conclusion is formatted from
TimingDiagnostic(line, constraint, duration_ms, observed_ms) ==
    [line |-> line, constraint |-> constraint, duration_ms |-> duration_ms,
     observed_ms |-> observed_ms]

\* u64::saturating_add; the operands of the model are far below u64::MAX,
\* where it is the sum
saturating_add(a, b) == a + b

\* Option::or
OrElse(a, b) == IF IsSome(a) THEN a ELSE b

\* TimingContext::from_inputs: profiles is the HashMap name ->
\* DeviceTimingProfile (a later device of the same name replaces the entry),
\* upstream_by_target the HashMap name -> names of the sources of the
\* topology edges into the name, in the order of the edges
TimingContext(p, topology) ==
    LET names == {p.topology.devices[i].name : i \in DOMAIN p.topology.devices}
        attributes(name) ==
            p.topology.devices[device_index_of(p.topology.devices, name)].attributes
        ms(duration) == IF IsSome(duration) THEN Some(duration_value_to_ms(Unwrap(duration)))
                        ELSE None
        into(name) == SelectSeq(topology.edges,
                          LAMBDA e : topology.devices[e.to].name = name)
    IN [profiles |->
           [name \in names |->
               [response_ms |-> ms(attributes(name).response_time),
                stroke_ms |-> ms(attributes(name).stroke_time),
                retract_ms |-> ms(attributes(name).retract_time),
                ramp_ms |-> ms(attributes(name).ramp_time)]],
        upstream_by_target |->
           [name \in {topology.devices[topology.edges[e].to].name :
                         e \in DOMAIN topology.edges} |->
               [k \in DOMAIN into(name) |-> topology.devices[into(name)[k].from].name]]]

\* TimingContext::max_upstream_response_ms
RECURSIVE max_upstream_response_ms(_, _, _)
max_upstream_response_ms(context, target, visited) ==
    IF target \in visited THEN 0
    ELSE IF target \notin DOMAIN context.upstream_by_target THEN 0
    ELSE LET upstream_nodes == context.upstream_by_target[target]
             own_response(upstream) ==
                 IF /\ upstream \in DOMAIN context.profiles
                    /\ IsSome(context.profiles[upstream].response_ms)
                 THEN Unwrap(context.profiles[upstream].response_ms)
                 ELSE 0
         IN SetMax({0} \cup
                {saturating_add(own_response(upstream_nodes[k]),
                     max_upstream_response_ms(context, upstream_nodes[k],
                                              visited \cup {target})) :
                    k \in DOMAIN upstream_nodes})

\* TimingContext::action_duration_ms: the total_ms of the action, None for
\* an action without a duration
action_duration_ms(context, action) ==
    IF action.action = "log" \/ action.target \notin DOMAIN context.profiles THEN None
    ELSE LET profile == context.profiles[action.target]
             own_duration_ms ==
                 CASE action.action = "extend" ->
                          OrElse(profile.stroke_ms,
                                 OrElse(profile.response_ms, profile.ramp_ms))
                   [] action.action = "retract" ->
                          OrElse(profile.retract_ms,
                                 OrElse(profile.response_ms, profile.ramp_ms))
                   [] action.action = "set" ->
                          OrElse(profile.ramp_ms, profile.response_ms)
         IN IF ~IsSome(own_duration_ms) THEN None
            ELSE Some(saturating_add(Unwrap(own_duration_ms),
                          max_upstream_response_ms(context, action.target, {})))

\* the actions of a statement tree, in the order of the text
RECURSIVE collect_actions(_)
collect_actions(statements) ==
    Concat([i \in DOMAIN statements |->
        CASE statements[i].statement = "action" -> <<statements[i]>>
          [] statements[i].statement \in {"parallel", "race"} ->
                 Concat([b \in DOMAIN statements[i].branches |->
                            collect_actions(statements[i].branches[b].statements)])
          [] OTHER -> <<>>])

RECURSIVE max_timeout_ms(_)
max_timeout_ms(statements) ==
    SetMax({0} \cup
        UNION {CASE statements[i].statement = "timeout" ->
                        {duration_value_to_ms(statements[i].duration)}
                 [] statements[i].statement \in {"parallel", "race"} ->
                        {max_timeout_ms(statements[i].branches[b].statements) :
                            b \in DOMAIN statements[i].branches}
                 [] OTHER -> {} :
               i \in DOMAIN statements})

step_key(task, step) == task \o "." \o step

\* the body of the loop of build_step_estimates with `action_max_ms =
\* duration_ms` in the place of `action_max_ms.max(duration_ms)`
StepTimingEstimate_of_the_last_action(context, step) ==
    LET actions == collect_actions(step.statements)
        timed == SelectSeq(actions, LAMBDA a : IsSome(action_duration_ms(context, a)))
        action_max_ms == IF timed = <<>> THEN 0
                         ELSE Unwrap(action_duration_ms(context, timed[Len(timed)]))
        timeout_max_ms == max_timeout_ms(step.statements)
    IN [action_max_ms |-> action_max_ms, timeout_max_ms |-> timeout_max_ms,
        worst_case_ms |-> Max(action_max_ms, timeout_max_ms)]

\* the StepTimingEstimate of one step
StepTimingEstimate(context, step) ==
    LET actions == collect_actions(step.statements)
        durations == {Unwrap(action_duration_ms(context, actions[k])) :
                         k \in {n \in DOMAIN actions :
                                   IsSome(action_duration_ms(context, actions[n]))}}
        action_max_ms == SetMax({0} \cup durations)
        timeout_max_ms == max_timeout_ms(step.statements)
    IN [action_max_ms |-> action_max_ms, timeout_max_ms |-> timeout_max_ms,
        worst_case_ms |-> Max(action_max_ms, timeout_max_ms)]

\* the HashMap step key -> StepTimingEstimate; a later step of the same key
\* replaces the entry
build_step_estimates(p, context) ==
    LET steps == UNION {{<<i, j>> : j \in DOMAIN p.tasks[i].steps} : i \in DOMAIN p.tasks}
        key(ij) == step_key(p.tasks[ij[1]].name, p.tasks[ij[1]].steps[ij[2]].name)
        later(a, b) == a[1] > b[1] \/ (a[1] = b[1] /\ a[2] >= b[2])
        last(k) == CHOOSE a \in steps :
                       key(a) = k /\ \A b \in steps : key(b) = k => later(a, b)
    IN [k \in {key(ij) : ij \in steps} |->
           StepTimingEstimate(context, p.tasks[last(k)[1]].steps[last(k)[2]])]

\* the fold of build_task_worst_case over the steps from `from` on
RECURSIVE fold_step_worst_cases(_, _, _, _)
fold_step_worst_cases(task, step_estimates, from, acc) ==
    IF from > Len(task.steps) THEN acc
    ELSE LET key == step_key(task.name, task.steps[from].name)
             step_worst_case == IF key \in DOMAIN step_estimates
                                THEN step_estimates[key].worst_case_ms ELSE 0
         IN fold_step_worst_cases(task, step_estimates, from + 1,
                                  saturating_add(acc, step_worst_case))

\* the HashMap task name -> worst case; a later task of the same name
\* replaces the entry (device_index_of finds the last declaration of a name)
build_task_worst_case(p, step_estimates) ==
    [name \in {p.tasks[i].name : i \in DOMAIN p.tasks} |->
        fold_step_worst_cases(p.tasks[device_index_of(p.tasks, name)],
                              step_estimates, 1, 0)]

\* transition_guard_min_interval_ms that takes every guard for immediate
transition_guard_min_interval_ms_immediate(guard) == 0

transition_guard_min_interval_ms(guard) ==
    IF guard.kind = "timeout" THEN guard.duration_ms ELSE 0

\* the name of the first step of the first task of the name, None when
\* there is no such task or it has no step
initial_step_for_task(p, task_name) ==
    LET named == {i \in DOMAIN p.tasks : p.tasks[i].name = task_name}
        first == CHOOSE i \in named : \A j \in named : i <= j
    IN IF named = {} \/ p.tasks[first].steps = <<>> THEN None
       ELSE Some(p.tasks[first].steps[1].name)

\* the interval of shortest_predecessor_interval_ms (the text that comes
\* with it is not modelled)
shortest_predecessor_interval_ms(scope, p, state_machine) ==
    IF scope.scope = "task" /\ ~IsSome(initial_step_for_task(p, scope.task)) THEN 0
    ELSE LET target_step == IF scope.scope = "task"
                            THEN Unwrap(initial_step_for_task(p, scope.task))
                            ELSE scope.step
             into == {t \in DOMAIN state_machine.transitions :
                         state_machine.transitions[t].to = State(scope.task, target_step)}
         IN IF into = {} THEN 0
            ELSE CHOOSE m \in {transition_guard_min_interval_ms(
                                   state_machine.transitions[t].guard) : t \in into} :
                     \A t \in into :
                         m <= transition_guard_min_interval_ms(
                                  state_machine.transitions[t].guard)

format_scope(scope) ==
    IF scope.scope = "task" THEN "task." \o scope.task
    ELSE "task." \o scope.task \o "." \o scope.step

format_timing_constraint(rule) ==
    format_scope(rule.scope) \o " " \o rule.relation \o " "
        \o ToString(rule.duration_ms) \o "ms"

timing_constraint_line(p, index) ==
    IF index \in DOMAIN p.constraints.timing
    THEN Max(p.constraints.timing[index].line, 1) ELSE 1

verify_timing(p, topology, constraints, state_machine) ==
    LET context == TimingContext(p, topology)
        step_estimates == build_step_estimates(p, context)
        task_worst_case == build_task_worst_case(p, step_estimates)
        observed_ms(rule) ==
            IF rule.scope.scope = "task"
            THEN IF rule.scope.task \in DOMAIN task_worst_case
                 THEN task_worst_case[rule.scope.task] ELSE 0
            ELSE IF step_key(rule.scope.task, rule.scope.step) \in DOMAIN step_estimates
                 THEN step_estimates[step_key(rule.scope.task, rule.scope.step)].worst_case_ms
                 ELSE 0
        min_interval_ms(rule) ==
            shortest_predecessor_interval_ms(rule.scope, p, state_machine)
        pushed ==
            Concat([index \in DOMAIN constraints.timing |->
                LET rule == constraints.timing[index]
                    line == timing_constraint_line(p, index)
                IN IF rule.relation = "must_complete_within"
                   THEN IF observed_ms(rule) > rule.duration_ms
                        THEN <<TimingDiagnostic(line, format_timing_constraint(rule),
                                                rule.duration_ms, observed_ms(rule))>>
                        ELSE <<>>
                   ELSE IF min_interval_ms(rule) < rule.duration_ms
                        THEN <<TimingDiagnostic(line, format_timing_constraint(rule),
                                                rule.duration_ms, min_interval_ms(rule))>>
                        ELSE <<>>])
    IN [verified |-> TRUE, ok |-> pushed = <<>>, diagnostics |-> pushed]

----------------------------------------------------------------------------
(* verification: liveness *)

\* LivenessDiagnostic: the line, and the values its reason is formatted from
\* (`check` tells the four reasons apart)
LivenessDiagnostic(check, line, task_name, step_name, wait, members) ==
    [check |-> check, line |-> line, task_name |-> task_name,
     step_name |-> step_name, wait |-> wait, members |-> members]

state_key(task_name, step_name) == State(task_name, step_name)

comparison_operator_text(operator) == IF operator = "eq" THEN "==" ELSE "!="

literal_to_text(literal) ==
    CASE literal.kind = "boolean" -> literal.value
      [] literal.kind = "number" -> literal.value
      [] literal.kind = "string" -> "\"" \o literal.value \o "\""
      [] literal.kind = "state" -> literal.device \o "." \o literal.state

wait_to_text(wait) ==
    wait.condition.left \o " " \o comparison_operator_text(wait.condition.operator)
        \o " " \o literal_to_text(wait.condition.right)

StepLivenessFacts(waits, has_timeout, has_allow_indefinite_wait) ==
    [waits |-> waits, has_timeout |-> has_timeout,
     has_allow_indefinite_wait |-> has_allow_indefinite_wait]

\* collect_step_liveness_facts that looks at the statements of the step
\* itself and not at those of its branches
collect_step_liveness_facts_of_step_only(statements, facts) ==
    StepLivenessFacts(
        facts.waits \o MapSeq(wait_to_text, OfKind(statements, "wait")),
        facts.has_timeout \/ OfKind(statements, "timeout") # <<>>,
        facts.has_allow_indefinite_wait
            \/ \E i \in DOMAIN statements :
                   /\ statements[i].statement = "allow_indefinite_wait"
                   /\ statements[i].flag)

RECURSIVE collect_step_liveness_facts(_, _)
RECURSIVE collect_branch_liveness_facts(_, _)

\* the loops `for branch in &block.branches` of collect_step_liveness_facts
collect_branch_liveness_facts(branches, facts) ==
    IF branches = <<>> THEN facts
    ELSE collect_branch_liveness_facts(Tail(branches),
             collect_step_liveness_facts(Head(branches).statements, facts))

collect_step_liveness_facts(statements, facts) ==
    IF statements = <<>> THEN facts
    ELSE LET statement == Head(statements)
             after ==
                 CASE statement.statement = "wait" ->
                          [facts EXCEPT !.waits = Append(@, wait_to_text(statement))]
                   [] statement.statement = "timeout" ->
                          [facts EXCEPT !.has_timeout = TRUE]
                   [] statement.statement = "allow_indefinite_wait" ->
                          IF statement.flag
                          THEN [facts EXCEPT !.has_allow_indefinite_wait = TRUE]
                          ELSE facts
                   [] statement.statement \in {"parallel", "race"} ->
                          collect_branch_liveness_facts(statement.branches, facts)
                   [] OTHER -> facts
         IN collect_step_liveness_facts(Tail(statements), after)

\* the diagnostics of one step of check_wait_timeout_or_allow
wait_diagnostics_of_step(task, step) ==
    LET facts == collect_step_liveness_facts(step.statements,
                     StepLivenessFacts(<<>>, FALSE, FALSE))
    IN IF facts.waits = <<>> \/ facts.has_timeout \/ facts.has_allow_indefinite_wait
       THEN <<>>
       ELSE [k \in DOMAIN facts.waits |->
                LivenessDiagnostic("wait", Max(step.line, 1), task.name, step.name,
                                   facts.waits[k], {})]

check_wait_timeout_or_allow(p) ==
    Concat([i \in DOMAIN p.tasks |->
        Concat([j \in DOMAIN p.tasks[i].steps |->
            wait_diagnostics_of_step(p.tasks[i], p.tasks[i].steps[j])])])

FlowSummary(has_jump_path, has_non_jump_path) ==
    [has_jump_path |-> has_jump_path, has_non_jump_path |-> has_non_jump_path]

\* FlowSummary::merge over a set of summaries
merge(summaries) ==
    FlowSummary(\E s \in summaries : s.has_jump_path,
                \E s \in summaries : s.has_non_jump_path)

guarantees_jump(summary) == summary.has_jump_path /\ ~summary.has_non_jump_path

\* summarize_statements that gives every race branch the completion of the
\* statements around it, whether or not it declares then: goto
RECURSIVE summarize_statements_without_then_goto(_, _)
summarize_statements_without_then_goto(statements, completion_is_jump) ==
    LET completion == IF completion_is_jump THEN FlowSummary(TRUE, FALSE)
                      ELSE FlowSummary(FALSE, TRUE)
        of(statement) ==
            CASE statement.statement \in {"goto", "timeout"} -> FlowSummary(TRUE, FALSE)
              [] statement.statement = "wait" -> completion
              [] statement.statement \in {"parallel", "race"} ->
                     merge({summarize_statements_without_then_goto(b.statements,
                                completion_is_jump) :
                               b \in Range(statement.branches)})
              [] OTHER -> FlowSummary(FALSE, FALSE)
        has_control_flow_statement ==
            \E i \in DOMAIN statements :
                statements[i].statement \in {"goto", "timeout", "wait", "parallel", "race"}
    IN merge({of(statements[i]) : i \in DOMAIN statements}
             \cup (IF has_control_flow_statement THEN {} ELSE {completion}))

RECURSIVE summarize_statements(_, _)
summarize_statements(statements, completion_is_jump) ==
    LET completion == IF completion_is_jump THEN FlowSummary(TRUE, FALSE)
                      ELSE FlowSummary(FALSE, TRUE)
        of(statement) ==
            CASE statement.statement \in {"goto", "timeout"} -> FlowSummary(TRUE, FALSE)
              [] statement.statement = "wait" -> completion
              [] statement.statement = "parallel" ->
                     merge({summarize_statements(b.statements, completion_is_jump) :
                               b \in Range(statement.branches)})
              [] statement.statement = "race" ->
                     merge({summarize_statements(b.statements,
                                IsSome(b.then_goto) \/ completion_is_jump) :
                               b \in Range(statement.branches)})
              [] OTHER -> FlowSummary(FALSE, FALSE)
        has_control_flow_statement ==
            \E i \in DOMAIN statements :
                statements[i].statement \in {"goto", "timeout", "wait", "parallel", "race"}
    IN merge({of(statements[i]) : i \in DOMAIN statements}
             \cup (IF has_control_flow_statement THEN {} ELSE {completion}))

\* the line is task.on_complete_line.unwrap_or(task.line).max(1)
check_unreachable_on_complete(p) ==
    Concat([i \in DOMAIN p.tasks |->
        LET task == p.tasks[i]
        IN IF \/ ~IsSome(task.on_complete)
              \/ Unwrap(task.on_complete).on_complete # "unreachable"
              \/ task.steps = <<>>
           THEN <<>>
           ELSE LET last_step == task.steps[Len(task.steps)]
                IN IF guarantees_jump(summarize_statements(last_step.statements, FALSE))
                   THEN <<>>
                   ELSE <<LivenessDiagnostic("unreachable",
                                             Max(on_complete_line_of(task), 1),
                                             task.name, last_step.name, "", {})>>])

\* the HashMap (task, step) -> line; a later step of the same key replaces
\* the entry
collect_step_line_map(p) ==
    LET steps == UNION {{<<i, j>> : j \in DOMAIN p.tasks[i].steps} : i \in DOMAIN p.tasks}
        key(ij) == state_key(p.tasks[ij[1]].name, p.tasks[ij[1]].steps[ij[2]].name)
        later(a, b) == a[1] > b[1] \/ (a[1] = b[1] /\ a[2] >= b[2])
        last(k) == CHOOSE a \in steps :
                       key(a) = k /\ \A b \in steps : key(b) = k => later(a, b)
    IN [k \in {key(ij) : ij \in steps} |->
           Max(Max(p.tasks[last(k)[1]].steps[last(k)[2]].line,
                   p.tasks[last(k)[1]].line), 1)]

out_degree_map(state_machine) ==
    [k \in {state_machine.transitions[t].from : t \in DOMAIN state_machine.transitions} |->
        Cardinality({t \in DOMAIN state_machine.transitions :
                        state_machine.transitions[t].from = k})]

\* is_terminal_state that takes the last step of every task for a terminal,
\* whatever the task's on_complete
is_terminal_state_of_any_task(p, task_name, step_name) ==
    LET named == {i \in DOMAIN p.tasks : p.tasks[i].name = task_name}
    IN IF named = {} THEN FALSE
       ELSE LET task == p.tasks[CHOOSE i \in named : \A j \in named : i <= j]
            IN /\ task.steps # <<>>
               /\ task.steps[Len(task.steps)].name = step_name

is_terminal_state(p, task_name, step_name) ==
    LET named == {i \in DOMAIN p.tasks : p.tasks[i].name = task_name}
    IN IF named = {} THEN FALSE
       ELSE LET task == p.tasks[CHOOSE i \in named : \A j \in named : i <= j]
            IN /\ ~IsSome(task.on_complete)
               /\ task.steps # <<>>
               /\ task.steps[Len(task.steps)].name = step_name

\* step_name.split("__").next(): the text before the first "__"
base_step_of(step_name) ==
    LET at == {i \in 1..(Len(step_name) - 1) : SubSeq(step_name, i, i + 1) = "__"}
    IN IF at = {} THEN step_name
       ELSE SubSeq(step_name, 1, (CHOOSE i \in at : \A j \in at : i <= j) - 1)

state_line(step_line_map, p, task_name, step_name) ==
    LET direct_key == state_key(task_name, step_name)
        normalized_key == state_key(task_name, base_step_of(step_name))
        named == {i \in DOMAIN p.tasks : p.tasks[i].name = task_name}
    IN IF direct_key \in DOMAIN step_line_map
       THEN Max(step_line_map[direct_key], 1)
       ELSE IF normalized_key \in DOMAIN step_line_map
       THEN Max(step_line_map[normalized_key], 1)
       ELSE IF named = {} THEN 1
       ELSE Max(p.tasks[CHOOSE i \in named : \A j \in named : i <= j].line, 1)

check_non_terminal_zero_out_degree(p, state_machine, step_line_map) ==
    LET out_degree == out_degree_map(state_machine)
    IN Concat([s \in DOMAIN state_machine.states |->
           LET state == state_machine.states[s]
           IN IF \/ state \in DOMAIN out_degree
                 \/ is_terminal_state(p, state.task_name, state.step_name)
              THEN <<>>
              ELSE <<LivenessDiagnostic("zero_out_degree",
                         state_line(step_line_map, p, state.task_name, state.step_name),
                         state.task_name, state.step_name, "", {})>>])

collect_allow_wait_states(p) ==
    UNION {{state_key(p.tasks[i].name, p.tasks[i].steps[j].name) :
               j \in {k \in DOMAIN p.tasks[i].steps :
                         \E n \in DOMAIN p.tasks[i].steps[k].statements :
                             /\ p.tasks[i].steps[k].statements[n].statement
                                    = "allow_indefinite_wait"
                             /\ p.tasks[i].steps[k].statements[n].flag}} :
           i \in DOMAIN p.tasks}

LivenessEdge(from, to, is_timeout, source_has_allow_wait) ==
    [from |-> from, to |-> to, is_timeout |-> is_timeout,
     source_has_allow_wait |-> source_has_allow_wait]

\* the graph of check_strongly_connected_components: node_map sends the key
\* of a state to its node (a later state of the same key replaces the
\* entry), and each transition whose ends are in node_map is an edge
liveness_graph(p, state_machine) ==
    LET allow_wait_states == collect_allow_wait_states(p)
        keys == Range(state_machine.states)
        node_map == [k \in keys |->
                        CHOOSE n \in DOMAIN state_machine.states :
                            /\ state_machine.states[n] = k
                            /\ \A m \in DOMAIN state_machine.states :
                                   state_machine.states[m] = k => m <= n]
        kept == SelectSeq(state_machine.transitions,
                          LAMBDA t : t.from \in keys /\ t.to \in keys)
    IN [t \in DOMAIN kept |->
           LivenessEdge(node_map[kept[t].from], node_map[kept[t].to],
                        kept[t].guard.kind = "timeout",
                        kept[t].from \in allow_wait_states)]

\* check_strongly_connected_components that takes a timeout edge as the
\* only way out of a component
scc_escapes_by_timeout(graph, component) ==
    \E e \in DOMAIN graph : graph[e].from \in component /\ graph[e].is_timeout

\* has_timeout_or_allow of a component
scc_escapes(graph, component) ==
    \E e \in DOMAIN graph :
        /\ graph[e].from \in component
        /\ graph[e].is_timeout \/ graph[e].source_has_allow_wait

\* the diagnostics check_strongly_connected_components pushes, one for each
\* component with a cycle and no escape. component_states is sorted before
\* it is joined into the reason: the diagnostic holds the set of the names.
check_strongly_connected_components(p, state_machine, step_line_map) ==
    LET graph == liveness_graph(p, state_machine)
        state_count == Len(state_machine.states)
        components == {Component(graph, state_count, s) : s \in 1..state_count}
        name(n) == state_machine.states[n].task_name \o "."
                       \o state_machine.states[n].step_name
        line_of(n) == state_line(step_line_map, p, state_machine.states[n].task_name,
                                 state_machine.states[n].step_name)
        min_line(component) ==
            CHOOSE l \in {line_of(n) : n \in component} :
                \A n \in component : l <= line_of(n)
    IN {LivenessDiagnostic("scc", Max(min_line(component), 1), "", "", "",
                           {name(n) : n \in component}) :
           component \in {c \in components :
                             ComponentHasCycle(graph, c) /\ ~scc_escapes(graph, c)}}

\* the sequences that list each element of S once
RECURSIVE Orderings(_)
Orderings(S) ==
    IF S = {} THEN {<<>>}
    ELSE UNION {{<<x>> \o rest : rest \in Orderings(S \ {x})} : x \in S}

\* Graph::neighbors_directed(node, Outgoing): the targets of the edges that
\* leave the node, the edge added last first
successors(graph, node) ==
    LET leaving == SelectSeq([e \in DOMAIN graph |-> e], LAMBDA e : graph[e].from = node)
    IN [k \in DOMAIN leaving |-> graph[leaving[Len(leaving) + 1 - k]].to]

\* Reversed(graph).neighbors(node): the sources of the edges that enter the
\* node, the edge added last first
predecessors(graph, node) ==
    LET entering == SelectSeq([e \in DOMAIN graph |-> e], LAMBDA e : graph[e].to = node)
    IN [k \in DOMAIN entering |-> graph[entering[Len(entering) + 1 - k]].from]

\* `for succ in graph.neighbors(nx) { if !discovered.is_visited(&succ) { stack.push(succ) } }`
push_undiscovered(stack, around, discovered) ==
    stack \o SelectSeq(around, LAMBDA n : n \notin discovered)

\* `while let Some(nx) = dfs.next(Reversed(g)) { finish_order.push(nx) }`
\* with DfsPostOrder::next: the node on top of the stack is discovered and
\* its neighbours pushed, or popped and, the first time, finished
RECURSIVE post_order(_, _, _, _, _)
post_order(graph, stack, discovered, finished, finish_order) ==
    IF stack = <<>>
    THEN [discovered |-> discovered, finished |-> finished, finish_order |-> finish_order]
    ELSE IF stack[Len(stack)] \notin discovered
    THEN post_order(graph,
             push_undiscovered(stack, predecessors(graph, stack[Len(stack)]),
                               discovered \cup {stack[Len(stack)]}),
             discovered \cup {stack[Len(stack)]}, finished, finish_order)
    ELSE IF stack[Len(stack)] \notin finished
    THEN post_order(graph, SubSeq(stack, 1, Len(stack) - 1), discovered,
                    finished \cup {stack[Len(stack)]},
                    Append(finish_order, stack[Len(stack)]))
    ELSE post_order(graph, SubSeq(stack, 1, Len(stack) - 1), discovered, finished,
                    finish_order)

\* first phase of kosaraju_scc: `for i in g.node_identifiers()`
RECURSIVE finish_order_from(_, _, _, _, _, _)

\* the loop goes on with what the walk from node i left
finish_order_after(graph, node_count, i, walk) ==
    finish_order_from(graph, node_count, i + 1, walk.discovered, walk.finished,
                      walk.finish_order)

finish_order_from(graph, node_count, i, discovered, finished, finish_order) ==
    IF i > node_count THEN finish_order
    ELSE IF i \in discovered
    THEN finish_order_from(graph, node_count, i + 1, discovered, finished, finish_order)
    ELSE finish_order_after(graph, node_count, i,
             post_order(graph, <<i>>, discovered, finished, finish_order))

\* `while let Some(nx) = dfs.next(g) { scc.push(nx) }` with Dfs::next
RECURSIVE depth_first(_, _, _, _)
depth_first(graph, stack, discovered, scc) ==
    IF stack = <<>> THEN [discovered |-> discovered, scc |-> scc]
    ELSE IF stack[Len(stack)] \in discovered
    THEN depth_first(graph, SubSeq(stack, 1, Len(stack) - 1), discovered, scc)
    ELSE depth_first(graph,
             push_undiscovered(SubSeq(stack, 1, Len(stack) - 1),
                               successors(graph, stack[Len(stack)]),
                               discovered \cup {stack[Len(stack)]}),
             discovered \cup {stack[Len(stack)]},
             Append(scc, stack[Len(stack)]))

\* second phase of kosaraju_scc: `for i in finish_order.into_iter().rev()`
RECURSIVE components_from(_, _, _, _, _)

\* `sccs.push(scc)`, and the loop goes on
components_after(graph, finish_order, k, sccs, walk) ==
    components_from(graph, finish_order, k - 1, walk.discovered, Append(sccs, walk.scc))

components_from(graph, finish_order, k, discovered, sccs) ==
    IF k = 0 THEN sccs
    ELSE IF finish_order[k] \in discovered
    THEN components_from(graph, finish_order, k - 1, discovered, sccs)
    ELSE components_after(graph, finish_order, k, sccs,
             depth_first(graph, <<finish_order[k]>>, discovered, <<>>))

\* petgraph::algo::kosaraju_scc: the components, each the list of its nodes,
\* in the order the second pass finds them
components_of_order(graph, finish_order) ==
    components_from(graph, finish_order, Len(finish_order), {}, <<>>)

kosaraju_scc(graph, node_count) ==
    components_of_order(graph, finish_order_from(graph, node_count, 1, {}, {}, <<>>))

\* the body of `for component in kosaraju_scc(&graph)`: no diagnostic, or the
\* one of a component with a cycle and no escape
scc_diagnostic(p, state_machine, step_line_map, graph, component) ==
    IF ComponentHasCycle(graph, component) /\ ~scc_escapes(graph, component)
    THEN <<LivenessDiagnostic("scc",
               Max(SetMin({state_line(step_line_map, p,
                                      state_machine.states[n].task_name,
                                      state_machine.states[n].step_name) :
                              n \in component}), 1),
               "", "", "",
               {state_machine.states[n].task_name \o "."
                    \o state_machine.states[n].step_name : n \in component})>>
    ELSE <<>>

scc_diagnostics_of(p, state_machine, step_line_map, graph, components) ==
    Concat([c \in DOMAIN components |->
               scc_diagnostic(p, state_machine, step_line_map, graph,
                              Range(components[c]))])

\* a check_strongly_connected_components whose components come in any
\* order, as they would out of a hashed collection
scc_diagnostic_orders_of_a_hash_set(p, state_machine, step_line_map) ==
    Orderings(check_strongly_connected_components(p, state_machine, step_line_map))

\* the lists of diagnostics check_strongly_connected_components may push:
\* one, the components being taken in the order of kosaraju_scc, which
\* walks the Vecs of the graph
scc_diagnostic_orders(p, state_machine, step_line_map) ==
    {scc_diagnostics_of(p, state_machine, step_line_map,
                        liveness_graph(p, state_machine),
                        kosaraju_scc(liveness_graph(p, state_machine),
                                     Len(state_machine.states)))}

\* verify_liveness; scc_diagnostics is the result of
\* check_strongly_connected_components in the order kosaraju_scc lists the
\* components
verify_liveness(p, state_machine, scc_diagnostics) ==
    LET step_line_map == collect_step_line_map(p)
        all == check_wait_timeout_or_allow(p)
                   \o check_unreachable_on_complete(p)
                   \o check_non_terminal_zero_out_degree(p, state_machine, step_line_map)
                   \o scc_diagnostics
    IN [ok |-> all = <<>>, diagnostics |-> all]

----------------------------------------------------------------------------
(* verification: causality *)

\* CausalityDiagnostic without its suggestion; action and wait are None on
\* the diagnostic of a declared chain
CausalityDiagnostic(line, action, wait, broken_link, expected_chain, actual_chain) ==
    [line |-> line, action |-> action, wait |-> wait, broken_link |-> broken_link,
     expected_chain |-> expected_chain, actual_chain |-> actual_chain]

ActionWaitPair(line, action, action_target, wait, wait_sensor) ==
    [line |-> line, action |-> action, action_target |-> action_target,
     wait |-> wait, wait_sensor |-> wait_sensor]

\* Vec<String>::join(" -> ")
RECURSIVE join_names(_)
join_names(names) ==
    IF names = <<>> THEN ""
    ELSE IF Len(names) = 1 THEN names[1]
    ELSE names[1] \o " -> " \o join_names(Tail(names))

\* RuntimeGraph::from_inputs without the edges of the detects attributes
RuntimeGraph_of_topology(p, topology) ==
    [nodes |-> topology.devices,
     edges |-> [e \in DOMAIN topology.edges |->
                   [from |-> device_index_of(topology.devices,
                                             topology.devices[topology.edges[e].from].name),
                    to |-> device_index_of(topology.devices,
                                           topology.devices[topology.edges[e].to].name)]]]

\* RuntimeGraph::from_inputs: a node per node of the topology, `nodes` maps a
\* name to the last node of the name; the edges of the topology between the
\* nodes their end names map to, then an edge from the detected device to
\* the detecting one for every declaration with a detects attribute whose two
\* names are in `nodes`
RuntimeGraph(p, topology) ==
    LET node(name) == device_index_of(topology.devices, name)
        declared == p.topology.devices
        detecting == SelectSeq([i \in DOMAIN declared |-> i],
                         LAMBDA i : /\ IsSome(declared[i].attributes.detects)
                                    /\ node(Unwrap(declared[i].attributes.detects).device) # 0
                                    /\ node(declared[i].name) # 0)
    IN [nodes |-> topology.devices,
        edges |-> RuntimeGraph_of_topology(p, topology).edges
                  \o [k \in DOMAIN detecting |->
                         [from |-> node(Unwrap(declared[detecting[k]].attributes.detects).device),
                          to |-> node(declared[detecting[k]].name)]]]

\* the nodes a run of edges leads to from the nodes of `seen`
RECURSIVE reachable_from(_, _)
reachable_from(runtime_graph, seen) ==
    LET next == seen \cup {runtime_graph.edges[e].to :
                              e \in {k \in DOMAIN runtime_graph.edges :
                                        runtime_graph.edges[k].from \in seen}}
    IN IF next = seen THEN seen ELSE reachable_from(runtime_graph, next)

\* RuntimeGraph::path_exists: has_path_connecting on the nodes of the two
\* names, false when a name has no node
path_exists(runtime_graph, from, to) ==
    LET source == device_index_of(runtime_graph.nodes, from)
        target == device_index_of(runtime_graph.nodes, to)
    IN /\ source # 0
       /\ target # 0
       /\ target \in reachable_from(runtime_graph, {source})

\* Graph::neighbors: the targets of the edges that leave the node, the edge
\* added last first
neighbors(runtime_graph, node) ==
    LET leaving == SelectSeq([e \in DOMAIN runtime_graph.edges |-> e],
                             LAMBDA e : runtime_graph.edges[e].from = node)
    IN [k \in DOMAIN leaving |-> runtime_graph.edges[leaving[Len(leaving) + 1 - k]].to]

\* the loop of shortest_path: the queue, the visited set and the `previous`
\* map (0: no entry) when the queue is empty or the target is popped
RECURSIVE breadth_first(_, _, _, _, _)
breadth_first(runtime_graph, target, pending, visited, previous) ==
    IF pending = <<>> \/ Head(pending) = target
    THEN [visited |-> visited, previous |-> previous]
    ELSE LET node == Head(pending)
             around == neighbors(runtime_graph, node)
             fresh == SelectSeq([k \in DOMAIN around |-> k],
                          LAMBDA k : /\ around[k] \notin visited
                                     /\ \A j \in 1..(k - 1) : around[j] # around[k])
             inserted == [k \in DOMAIN fresh |-> around[fresh[k]]]
         IN breadth_first(runtime_graph, target, Tail(pending) \o inserted,
                          visited \cup {inserted[k] : k \in DOMAIN inserted},
                          [n \in DOMAIN previous |->
                              IF \E k \in DOMAIN inserted : inserted[k] = n
                              THEN node ELSE previous[n]])

RECURSIVE path_back(_, _, _)
path_back(previous, source, cursor) ==
    IF cursor = source THEN <<source>>
    ELSE path_back(previous, source, previous[cursor]) \o <<cursor>>

\* the end of shortest_path: None when the search did not visit the target,
\* else the names of the nodes from the source to the target along `previous`
path_of_search(runtime_graph, search, source, target) ==
    IF target \notin search.visited THEN None
    ELSE Some(MapSeq(LAMBDA n : runtime_graph.nodes[n].name,
                     path_back(search.previous, source, target)))

\* shortest_path between two nodes (0: the name has no node)
shortest_path_between(runtime_graph, source, target) ==
    IF source = 0 \/ target = 0 THEN None
    ELSE path_of_search(runtime_graph,
                        breadth_first(runtime_graph, target, <<source>>, {source},
                                      [n \in DOMAIN runtime_graph.nodes |-> 0]),
                        source, target)

\* shortest_path: the names on the path of the breadth-first search from
\* `from` to `to`, None when a name has no node or the search does not
\* visit the target
shortest_path(runtime_graph, from, to) ==
    shortest_path_between(runtime_graph, device_index_of(runtime_graph.nodes, from),
                          device_index_of(runtime_graph.nodes, to))

\* collect_chain_line_map: the HashMap from the devices of a chain to its
\* line; the last chain of the same devices decides
collect_chain_line_map(p, devices) ==
    LET chains == p.constraints.causality
        names(i) == [k \in DOMAIN chains[i].chain |-> chains[i].chain[k].device]
        same == {i \in DOMAIN chains : names(i) = devices}
    IN IF same = {} THEN None
       ELSE Some(Max(chains[CHOOSE i \in same : \A j \in same : j <= i].line, 1))

\* first_broken_link: the first pair of chain.windows(2) without a path
first_broken_link(runtime_graph, chain) ==
    LET broken == {i \in 1..(Len(chain) - 1) :
                      ~path_exists(runtime_graph, chain[i], chain[i + 1])}
    IN IF broken = {} THEN None
       ELSE LET i == CHOOSE b \in broken : \A c \in broken : b <= c
            IN Some(<<chain[i], chain[i + 1]>>)

\* join_paths, and the inner loop of realized_prefix: the nodes are pushed
\* unless equal to the last one
RECURSIVE join_paths(_, _)
join_paths(left, right) ==
    IF right = <<>> THEN left
    ELSE join_paths(IF left # <<>> /\ left[Len(left)] = Head(right)
                    THEN left ELSE Append(left, Head(right)),
                    Tail(right))

\* the loop of realized_prefix from the pair (chain[i], chain[i + 1]) on
RECURSIVE realized_from(_, _, _, _)
realized_from(runtime_graph, chain, i, realized) ==
    IF i >= Len(chain) THEN realized
    ELSE LET segment_path == shortest_path(runtime_graph, chain[i], chain[i + 1])
         IN IF ~IsSome(segment_path) THEN Append(realized, "???")
            ELSE realized_from(runtime_graph, chain, i + 1,
                               join_paths(realized, Tail(Unwrap(segment_path))))

realized_prefix(runtime_graph, chain) ==
    IF chain = <<>> THEN "???"
    ELSE join_names(realized_from(runtime_graph, chain, 1, <<chain[1]>>))

collect_sensor_names(p) ==
    {p.topology.devices[i].name :
        i \in {k \in DOMAIN p.topology.devices :
                  p.topology.devices[k].device_type = "sensor"}}

collect_output_ports(topology) ==
    LET ports == SelectSeq([i \in DOMAIN topology.devices |-> i],
                           LAMBDA i : topology.devices[i].kind = "digital_output")
    IN [k \in DOMAIN ports |-> topology.devices[ports[k]].name]

\* action_to_text_and_target: None for a log action
action_to_text_and_target(action) ==
    CASE action.action \in {"extend", "retract"} ->
             Some([text |-> action.action \o " " \o action.target,
                   target |-> action.target])
      [] action.action = "set" ->
             Some([text |-> "set " \o action.target \o " " \o action.value,
                   target |-> action.target])
      [] OTHER -> None

\* infer_wait_sensor: the left side when it names a sensor, else the device
\* of a state literal on the right when that names one.  The second test of
\* the code, on the part of the left side before its first '.', is that of
\* the first for the left sides of the inputs, which hold no '.'
\* `left.split('.').next()`: the text before the first '.', on the operands
\* the programs use
first_segment(text) ==
    CASE text = "sensor_A.on" -> "sensor_A"
      [] text = "X1.on" -> "X1"
      [] OTHER -> text

infer_wait_sensor(wait, sensor_names) ==
    IF wait.condition.left \in sensor_names THEN Some(wait.condition.left)
    ELSE IF first_segment(wait.condition.left) \in sensor_names
         THEN Some(first_segment(wait.condition.left))
    ELSE IF /\ wait.condition.right.kind = "state"
            /\ wait.condition.right.device \in sensor_names
         THEN Some(wait.condition.right.device)
    ELSE None

\* (wait_to_text and literal_to_text are those of the liveness verifier)

\* collect_pairs_from_statements: the pairs of the branches of the parallel
\* and race blocks in the order of the statements, then those of the
\* actions with the waits of the list itself
RECURSIVE collect_pairs_from_statements(_, _, _)
collect_pairs_from_statements(statements, line, sensor_names) ==
    LET actions == SelectSeq(statements,
                       LAMBDA s : /\ s.statement = "action"
                                  /\ IsSome(action_to_text_and_target(s)))
        waits == SelectSeq(statements,
                     LAMBDA s : /\ s.statement = "wait"
                                /\ IsSome(infer_wait_sensor(s, sensor_names)))
        nested == Concat([i \in DOMAIN statements |->
                     IF statements[i].statement \in {"parallel", "race"}
                     THEN Concat([b \in DOMAIN statements[i].branches |->
                              collect_pairs_from_statements(
                                  statements[i].branches[b].statements, line,
                                  sensor_names)])
                     ELSE <<>>])
        own == Concat([a \in DOMAIN actions |->
                  [w \in DOMAIN waits |->
                      ActionWaitPair(line,
                          Unwrap(action_to_text_and_target(actions[a])).text,
                          Unwrap(action_to_text_and_target(actions[a])).target,
                          wait_to_text(waits[w]),
                          Unwrap(infer_wait_sensor(waits[w], sensor_names)))]])
    IN nested \o own

collect_action_wait_pairs(p, sensor_names) ==
    Concat([t \in DOMAIN p.tasks |->
        Concat([s \in DOMAIN p.tasks[t].steps |->
            collect_pairs_from_statements(p.tasks[t].steps[s].statements,
                                          Max(p.tasks[t].steps[s].line, 1),
                                          sensor_names)])])

\* match_declared_chain: of the chains that hold the action target before
\* the first occurrence of the wait sensor, the prefix up to the sensor of
\* the first chain with the shortest such prefix
match_declared_chain(chains, action_target, wait_sensor) ==
    LET wait_index(c) == IndexOf(chains[c], wait_sensor)
        action_index(c) == IndexOf(SubSeq(chains[c], 1, wait_index(c)), action_target)
        candidates == {c \in DOMAIN chains :
                          /\ wait_index(c) # 0
                          /\ action_index(c) # 0
                          /\ action_index(c) < wait_index(c)}
    IN IF candidates = {} THEN None
       ELSE LET best == CHOOSE c \in candidates :
                            \A d \in candidates :
                                \/ wait_index(c) < wait_index(d)
                                \/ wait_index(c) = wait_index(d) /\ c <= d
            IN Some(SubSeq(chains[best], 1, wait_index(best)))

\* the `best` of the loop of shortest_output_path_to_target: the first of
\* the shortest paths, None when there is no path
first_shortest(paths) ==
    IF \A o \in DOMAIN paths : ~IsSome(paths[o]) THEN None
    ELSE paths[CHOOSE o \in DOMAIN paths :
                   /\ IsSome(paths[o])
                   /\ \A q \in DOMAIN paths :
                          IsSome(paths[q]) =>
                              \/ Len(Unwrap(paths[o])) < Len(Unwrap(paths[q]))
                              \/ Len(Unwrap(paths[o])) = Len(Unwrap(paths[q])) /\ o <= q]

\* shortest_output_path_to_target: the path of the first output port with
\* the shortest path to the target
shortest_output_path_to_target(runtime_graph, output_ports, target) ==
    first_shortest([o \in DOMAIN output_ports |->
                       shortest_path(runtime_graph, output_ports[o], target)])

\* build_fallback_details: broken link, expected chain and actual chain;
\* "<output port>" stands for the placeholder text of the code
\* build_fallback_details without its branch for a missing source path
build_fallback_details_of_the_feedback(pair, source_path, feedback_path, output_ports) ==
    [broken_link |-> pair.action_target \o " -> " \o pair.wait_sensor,
     expected_chain |-> pair.action_target \o " -> " \o pair.wait_sensor,
     actual_chain |-> pair.action_target \o " -> ???"]

build_fallback_details(pair, source_path, feedback_path, output_ports) ==
    IF ~IsSome(source_path)
    THEN LET output == IF output_ports = <<>> THEN "<output port>" ELSE output_ports[1]
         IN [broken_link |-> output \o " -> " \o pair.action_target,
             expected_chain |-> output \o " -> " \o pair.action_target \o " -> "
                                    \o pair.wait_sensor,
             actual_chain |-> output \o " -> ???"]
    ELSE [broken_link |-> pair.action_target \o " -> " \o pair.wait_sensor,
          expected_chain |-> join_names(Unwrap(source_path)) \o " -> " \o pair.wait_sensor,
          actual_chain |-> join_names(Unwrap(source_path)) \o " -> ???"]

\* the diagnostic of a chain whose first broken link is `link`, <<>> when it
\* has none
diagnostic_of_link(runtime_graph, chain, link, line, action, wait) ==
    IF ~IsSome(link) THEN <<>>
    ELSE <<CausalityDiagnostic(line, action, wait,
                               Unwrap(link)[1] \o " -> " \o Unwrap(link)[2],
                               join_names(chain),
                               realized_prefix(runtime_graph, chain))>>

chain_diagnostic(runtime_graph, chain, line, action, wait) ==
    diagnostic_of_link(runtime_graph, chain, first_broken_link(runtime_graph, chain),
                       line, action, wait)

\* the diagnostic built from build_fallback_details
fallback_diagnostic(pair, details) ==
    CausalityDiagnostic(pair.line, Some(pair.action), Some(pair.wait),
                        details.broken_link, details.expected_chain, details.actual_chain)

\* the body of the loop of verify_causality over the action-wait pairs for a
\* pair without a declared chain
undeclared_pair_diagnostic(runtime_graph, output_ports, pair, source_path, feedback_path) ==
    IF /\ IsSome(source_path)
       /\ IsSome(feedback_path)
       /\ ~IsSome(first_broken_link(runtime_graph,
                      join_paths(Unwrap(source_path), Unwrap(feedback_path))))
    THEN <<>>
    ELSE <<fallback_diagnostic(pair,
               build_fallback_details(pair, source_path, feedback_path, output_ports))>>

\* the body of the loop of verify_causality over the action-wait pairs, with
\* the result of match_declared_chain
matched_pair_diagnostic(runtime_graph, output_ports, pair, expected_chain) ==
    IF IsSome(expected_chain)
    THEN chain_diagnostic(runtime_graph, Unwrap(expected_chain), pair.line,
                          Some(pair.action), Some(pair.wait))
    ELSE undeclared_pair_diagnostic(runtime_graph, output_ports, pair,
             shortest_output_path_to_target(runtime_graph, output_ports,
                                            pair.action_target),
             shortest_path(runtime_graph, pair.action_target, pair.wait_sensor))

pair_diagnostic(runtime_graph, declared_chains, output_ports, pair) ==
    matched_pair_diagnostic(runtime_graph, output_ports, pair,
        match_declared_chain(declared_chains, pair.action_target, pair.wait_sensor))

\* Ok(()) when nothing was pushed, Err(diagnostics) otherwise
CausalityResult(pushed) == [verified |-> TRUE, ok |-> pushed = <<>>, diagnostics |-> pushed]

\* chain_line_map.get(..).copied().unwrap_or(1).max(1)
line_or_first(line) == IF IsSome(line) THEN Max(Unwrap(line), 1) ELSE 1

\* the first loop of verify_causality: the diagnostics of the declared chains
chain_diagnostics(p, runtime_graph, chains) ==
    Concat([c \in DOMAIN chains |->
        IF Len(chains[c].devices) < 2 THEN <<>>
        ELSE chain_diagnostic(runtime_graph, chains[c].devices,
                 line_or_first(collect_chain_line_map(p, chains[c].devices)),
                 None, None)])

\* the second loop of verify_causality: the diagnostics of the pairs
pair_diagnostics(runtime_graph, declared_chains, output_ports, pairs) ==
    Concat([k \in DOMAIN pairs |->
        pair_diagnostic(runtime_graph, declared_chains, output_ports, pairs[k])])

\* verify_causality that stops after the declared chains
verify_causality_of_chains_only(p, topology, constraints) ==
    CausalityResult(chain_diagnostics(p, RuntimeGraph(p, topology), constraints.causality))

\* verify_causality: the diagnostics of the declared chains in their order,
\* then those of the action-wait pairs; Err when there is one
verify_causality(p, topology, constraints) ==
    CausalityResult(
        chain_diagnostics(p, RuntimeGraph(p, topology), constraints.causality)
        \o pair_diagnostics(RuntimeGraph(p, topology),
                            MapSeq(LAMBDA chain : chain.devices, constraints.causality),
                            collect_output_ports(topology),
                            collect_action_wait_pairs(p, collect_sensor_names(p))))

----------------------------------------------------------------------------

(* semantic: build_timing_model *)

\* collect_device_timing_profiles: the HashMap name -> DeviceTimingProfile; a
\* later device of the same name replaces the entry
collect_device_timing_profiles(topology) ==
    [name \in {topology.devices[i].name : i \in DOMAIN topology.devices} |->
        LET attributes == topology.devices[device_index_of(topology.devices, name)].attributes
            ms(duration) == IF IsSome(duration)
                            THEN Some(duration_value_to_ms(Unwrap(duration))) ELSE None
        IN [response_ms |-> ms(attributes.response_time),
            stroke_ms |-> ms(attributes.stroke_time),
            retract_ms |-> ms(attributes.retract_time),
            ramp_ms |-> ms(attributes.ramp_time)]]

\* the duration action_to_timing selects from the profile of the target
profile_duration_ms(action, profile) ==
    CASE action.action = "extend" ->
             OrElse(profile.stroke_ms, OrElse(profile.response_ms, profile.ramp_ms))
      [] action.action = "retract" ->
             OrElse(profile.retract_ms, OrElse(profile.response_ms, profile.ramp_ms))
      [] action.action = "set" -> OrElse(profile.ramp_ms, profile.response_ms)
      [] OTHER -> None

\* action_to_timing: the error it pushes, for an action on a device that has
\* no profile
action_timing_errors(line, action, profiles) ==
    IF action.action # "log" /\ action.target \notin DOMAIN profiles
    THEN <<PlcError("undefined_reference", line, action.target)>>
    ELSE <<>>

\* action_to_timing: the ActionTiming it returns, if any
action_to_timing(task_name, step_name, action, profiles) ==
    IF action.action = "log" \/ action.target \notin DOMAIN profiles
           \/ ~IsSome(profile_duration_ms(action, profiles[action.target]))
    THEN <<>>
    ELSE <<[task_name |-> task_name, step_name |-> step_name,
            action_kind |-> action.action, target |-> action.target,
            min_ms |-> Unwrap(profile_duration_ms(action, profiles[action.target])),
            max_ms |-> Unwrap(profile_duration_ms(action, profiles[action.target]))]>>

\* the loops of build_timing_model_from_ast over the tasks, their steps and
\* the actions of each step (semantic's collect_actions walks the statement
\* tree as the timing verifier's does)
timing_model_errors(tasks, profiles) ==
    Concat([i \in DOMAIN tasks |->
        Concat([j \in DOMAIN tasks[i].steps |->
            Concat(MapSeq(LAMBDA action :
                              action_timing_errors(tasks[i].steps[j].line, action, profiles),
                          collect_actions(tasks[i].steps[j].statements)))])])

collected_action_timings(tasks, profiles) ==
    Concat([i \in DOMAIN tasks |->
        Concat([j \in DOMAIN tasks[i].steps |->
            Concat(MapSeq(LAMBDA action :
                              action_to_timing(tasks[i].name, tasks[i].steps[j].name,
                                               action, profiles),
                          collect_actions(tasks[i].steps[j].statements)))])])

\* insert_action_timing with `intervals.insert(base_key, timing)` for every
\* timing, the key being free or not
insert_action_timing_at_the_base_key(intervals, timing) ==
    MapInsert(intervals,
              timing.task_name \o "." \o timing.step_name \o "."
                  \o timing.action_kind \o "." \o timing.target,
              timing)

\* the loop of insert_action_timing: the first key base_key.n, n from
\* duplicate_index on, that the map does not contain
RECURSIVE free_duplicate_key(_, _, _)
free_duplicate_key(intervals, base_key, duplicate_index) ==
    IF base_key \o "." \o ToString(duplicate_index) \notin DOMAIN intervals
    THEN base_key \o "." \o ToString(duplicate_index)
    ELSE free_duplicate_key(intervals, base_key, duplicate_index + 1)

\* insert_action_timing: the BTreeMap with the timing under its base key
\* task.step.kind.target, or under the first free key base_key.n
insert_action_timing(intervals, timing) ==
    LET base_key == timing.task_name \o "." \o timing.step_name \o "."
                        \o timing.action_kind \o "." \o timing.target
    IN IF base_key \notin DOMAIN intervals
       THEN MapInsert(intervals, base_key, timing)
       ELSE MapInsert(intervals, free_duplicate_key(intervals, base_key, 2), timing)

\* the BTreeMap after the inserts of build_timing_model_from_ast
RECURSIVE inserted_action_timings(_, _)
inserted_action_timings(intervals, timings) ==
    IF timings = <<>> THEN intervals
    ELSE inserted_action_timings(insert_action_timing(intervals, Head(timings)),
                                 Tail(timings))

timing_model_intervals(tasks, profiles) ==
    inserted_action_timings(EmptyMap, collected_action_timings(tasks, profiles))

\* TimingModel: the BTreeMap key -> ActionTiming
TimingModel(intervals) == [intervals |-> intervals]

timing_model_result(errors, intervals) ==
    IF errors = <<>> THEN Ok(TimingModel(intervals)) ELSE Err(errors)

build_timing_model_from_ast(topology, tasks) ==
    timing_model_result(
        timing_model_errors(tasks, collect_device_timing_profiles(topology)),
        timing_model_intervals(tasks, collect_device_timing_profiles(topology)))

build_timing_model(p) == build_timing_model_from_ast(p.topology, p.tasks)

----------------------------------------------------------------------------
(* verification: verify_safety as one call *)

\* the while loop of analyze_rule; search is [nodes, queue, shortest_depth]
RECURSIVE search_rule(_, _, _, _, _)
search_rule(m, rule, max_depth, search, explored) ==
    IF search.queue = <<>>
    THEN [counterexample |-> None, fully_explored |-> explored]
    ELSE IF conflicts(search.nodes[Head(search.queue)].state, rule)
    THEN [counterexample |-> Some(render_path(m, search.nodes, Head(search.queue), rule)),
          fully_explored |-> explored]
    ELSE IF search.nodes[Head(search.queue)].depth = max_depth
    THEN search_rule(m, rule, max_depth, [search EXCEPT !.queue = Tail(@)],
             explored /\ ~frontier_has_unknown(m, search.shortest_depth,
                                               search.nodes[Head(search.queue)]))
    ELSE search_rule(m, rule, max_depth,
             expand_node(m, [search EXCEPT !.queue = Tail(@)], Head(search.queue),
                 m.outgoing[search.nodes[Head(search.queue)].state.control_state], 1),
             explored)

analyze_rule(m, rule, max_depth) ==
    search_rule(m, rule, max_depth,
        [nodes |-> <<SearchNode(initial_concrete_state(m), 0, 0, 0)>>,
         queue |-> <<1>>,
         shortest_depth |-> MapInsert(EmptyMap, initial_concrete_state(m), 0)],
        TRUE)

\* the body of `for (index, rule) in constraints.safety.iter().enumerate()`:
\* whether the rule is searched, and the outcome of its search
rule_outcome(m, topology_devices, rule, max_depth) ==
    IF rule.relation # "conflicts_with" \/ ~IsSome(bind_rule(m, topology_devices, rule))
    THEN [checked |-> FALSE, counterexample |-> None, fully_explored |-> TRUE]
    ELSE [checked |-> TRUE] @@
         analyze_rule(m, Unwrap(bind_rule(m, topology_devices, rule)), max_depth)

\* program.constraints.safety.get(index).map(|node| node.line.max(1)).unwrap_or(1)
safety_line(p, index) ==
    IF index \in DOMAIN p.constraints.safety
    THEN Max(p.constraints.safety[index].line, 1) ELSE 1

safety_diagnostics_of(p, rule_outcomes) ==
    Concat([i \in DOMAIN rule_outcomes |->
        IF IsSome(rule_outcomes[i].counterexample)
        THEN <<[line |-> safety_line(p, i), rule |-> i,
                violation_path |-> Unwrap(rule_outcomes[i].counterexample).lines,
                edge_ids |-> Unwrap(rule_outcomes[i].counterexample).edge_ids]>>
        ELSE <<>>])

BoundedWarning(depth) == [warning |-> "bounded", bmc_max_depth |-> 0, depth |-> depth]

\* verify_safety_with_config after its loop; the levels stand for the
\* SafetyProofLevel, which verify_all renders as text
safety_report(plan, rule_outcomes, pushed) ==
    IF pushed # <<>>
    THEN [ok |-> FALSE, level |-> "", explored_depth |-> 0, warnings |-> <<>>,
          diagnostics |-> pushed]
    ELSE IF (\A i \in DOMAIN rule_outcomes : ~rule_outcomes[i].checked)
            \/ (~plan.truncated
                /\ \A i \in DOMAIN rule_outcomes : rule_outcomes[i].fully_explored)
    THEN [ok |-> TRUE, level |-> "Complete", explored_depth |-> plan.effective_depth,
          warnings |-> plan.warnings, diagnostics |-> <<>>]
    ELSE [ok |-> TRUE, level |-> "Bounded", explored_depth |-> plan.effective_depth,
          warnings |-> Append(plan.warnings, BoundedWarning(plan.effective_depth)),
          diagnostics |-> <<>>]

safety_outcomes(p, m, rules, plan) ==
    [i \in DOMAIN rules |->
        rule_outcome(m, p.topology.devices, rules[i], plan.effective_depth)]

safety_verdict(p, plan, rule_outcomes) ==
    safety_report(plan, rule_outcomes, safety_diagnostics_of(p, rule_outcomes))

safety_of_model(p, constraints, m, plan) ==
    safety_verdict(p, plan, safety_outcomes(p, m, constraints.safety, plan))

safety_with_model(p, constraints, m, cfg) ==
    safety_of_model(p, constraints, m, build_depth_plan(m, cfg))

verify_safety_with_config(p, constraints, state_machine, cfg) ==
    safety_with_model(p, constraints, from_inputs(p, constraints, state_machine), cfg)

\* SafetyConfig::default()
DefaultSafetyConfig == [bmc_max_depth |-> None]

verify_safety(p, constraints, state_machine) ==
    verify_safety_with_config(p, constraints, state_machine, DefaultSafetyConfig)

----------------------------------------------------------------------------
(* verification: verify_all *)

\* VerificationIssue: the checker, the line, and the diagnostic its reason,
\* suggestion and details are formatted from
VerificationIssue(checker, diagnostic) ==
    [checker |-> checker, line |-> Max(diagnostic.line, 1), diagnostic |-> diagnostic]

issues_of(checker, pushed) ==
    [k \in DOMAIN pushed |-> VerificationIssue(checker, pushed[k])]

\* SafetySummary of the Ok and of the Err arm
SafetySummary(report) ==
    IF report.ok
    THEN [level |-> report.level, explored_depth |-> report.explored_depth,
          warnings |-> report.warnings]
    ELSE [level |-> "Failed", explored_depth |-> 0, warnings |-> <<>>]

VerificationSummary(safety) ==
    [safety |-> safety, liveness |-> "Passed", timing |-> "Passed",
     causality |-> "Passed"]

NoSummary ==
    [safety |-> [level |-> "", explored_depth |-> 0, warnings |-> <<>>],
     liveness |-> "", timing |-> "", causality |-> ""]

\* Result<VerificationSummary, Vec<VerificationIssue>>
VerificationResult(safety, issues) ==
    IF issues # <<>>
    THEN [done |-> TRUE, ok |-> FALSE, summary |-> NoSummary, issues |-> issues]
    ELSE [done |-> TRUE, ok |-> TRUE,
          summary |-> VerificationSummary(SafetySummary(safety)), issues |-> <<>>]

\* a verify_all that returns as soon as a verifier has reported
first_failure_only(safety, liveness, timing, causality) ==
    VerificationResult(safety,
        IF safety.diagnostics # <<>> THEN issues_of("safety", safety.diagnostics)
        ELSE IF liveness.diagnostics # <<>> THEN issues_of("liveness", liveness.diagnostics)
        ELSE IF timing.diagnostics # <<>> THEN issues_of("timing", timing.diagnostics)
        ELSE issues_of("causality", causality.diagnostics))

\* the body of verify_all given what the four verifiers returned: `issues`
\* is extended by each in turn
collect_issues(safety, liveness, timing, causality) ==
    VerificationResult(safety,
        issues_of("safety", safety.diagnostics)
            \o issues_of("liveness", liveness.diagnostics)
            \o issues_of("timing", timing.diagnostics)
            \o issues_of("causality", causality.diagnostics))

\* verify_all; scc_diagnostics as in verify_liveness
verify_all(p, topology, constraints, state_machine, scc_diagnostics) ==
    collect_issues(verify_safety(p, constraints, state_machine),
                   verify_liveness(p, state_machine, scc_diagnostics),
                   verify_timing(p, topology, constraints, state_machine),
                   verify_causality(p, topology, constraints))

----------------------------------------------------------------------------
(* the driver: compile_pipeline *)

\* collect_stage over the four builders, in the order of the calls
stage_errors(topology, state_machine, constraints, timing_model) ==
    topology.errors \o state_machine.errors \o constraints.errors \o timing_model.errors

\* Result<IrBundle, Vec<String>>: the errors of the stages or the issues of
\* the verifiers, each rendered by to_string
NotCompiled == [done |-> FALSE, ok |-> FALSE, errors |-> <<>>, verification |-> None]

CompileErr(errors) ==
    [done |-> TRUE, ok |-> FALSE, errors |-> errors, verification |-> None]

CompileOk(summary) ==
    [done |-> TRUE, ok |-> TRUE, errors |-> <<>>, verification |-> Some(summary)]

\* `verify_all(..).map_err(..)?` and the IrBundle
pipeline_verdict(verified) ==
    IF verified.ok THEN CompileOk(verified.summary)
    ELSE CompileErr(verified.issues)

\* compile_pipeline after the four builders
pipeline_after_stages(p, topology, state_machine, constraints, timing_model, scc_diagnostics) ==
    IF stage_errors(topology, state_machine, constraints, timing_model) # <<>>
    THEN CompileErr(stage_errors(topology, state_machine, constraints, timing_model))
    ELSE pipeline_verdict(verify_all(p, Unwrap(topology.value), Unwrap(constraints.value),
                                     state_machine, scc_diagnostics))

\* compile_pipeline on a parsed program
compile_pipeline(p, scc_diagnostics) ==
    pipeline_after_stages(p, build_topology_graph(p), build_state_machine(p),
                          build_constraint_set(p), build_timing_model(p),
                          scc_diagnostics)

----------------------------------------------------------------------------
(* rustplc_runtime: TimerBank and ScanCycleEngine; rustplc_codegen: the
   scan_cycle function emit_scan_cycle_fn writes *)

MAX_TIMERS == 32

\* one entry of TimerBank::timers: (elapsed, duration, _, active)
TimerSlot(elapsed, duration, active) ==
    [elapsed |-> elapsed, duration |-> duration, unused |-> 0, active |-> active]

\* TimerBank::new()
NewTimerBank ==
    [timers |-> [slot \in 0..(MAX_TIMERS - 1) |-> TimerSlot(0, 0, FALSE)],
     name_map |-> EmptyMap,
     next_slot |-> 0]

\* TimerBank::slot_for: the bank with a slot for the name
slot_for(bank, name) ==
    IF name \in DOMAIN bank.name_map THEN bank
    ELSE [bank EXCEPT !.name_map = MapInsert(@, name, bank.next_slot),
                      !.next_slot = IF @ + 1 <= MAX_TIMERS - 1 THEN @ + 1
                                    ELSE MAX_TIMERS - 1]

\* TimerBank::start
timer_start(bank, name, duration_ms) ==
    [slot_for(bank, name) EXCEPT
        !.timers[slot_for(bank, name).name_map[name]] = TimerSlot(0, duration_ms, TRUE)]

\* TimerBank::expired
timer_expired(bank, name) ==
    IF name \in DOMAIN bank.name_map
    THEN /\ bank.timers[bank.name_map[name]].active
         /\ bank.timers[bank.name_map[name]].elapsed
                >= bank.timers[bank.name_map[name]].duration
    ELSE FALSE

\* the elapsed time is kept up to this value, which is above every
\* duration of the programs, so that `elapsed >= duration` is not affected
MaxElapsedMs == 400

\* TimerBank::tick
timer_tick(bank, cycle_time_ms) ==
    [bank EXCEPT !.timers =
        [slot \in DOMAIN @ |->
            IF @[slot].active
            THEN [@[slot] EXCEPT
                     !.elapsed = IF @ + cycle_time_ms <= MaxElapsedMs
                                 THEN @ + cycle_time_ms ELSE MaxElapsedMs]
            ELSE @[slot]]]

\* SimBackend: the inputs the plant shows and the outputs written so far
Hal(inputs, outputs) == [inputs |-> inputs, outputs |-> outputs]

\* HalBackend::read_digital_input of SimBackend
read_digital_input(hal, device) ==
    IF device \in DOMAIN hal.inputs THEN hal.inputs[device] ELSE FALSE

\* the statement emit_one_action writes, executed on the hal
RECURSIVE run_actions(_, _)
run_actions(hal, actions) ==
    IF actions = <<>> THEN hal
    ELSE LET action == Head(actions)
             written ==
                 CASE action.action = "extend" ->
                          [hal EXCEPT !.outputs = MapInsert(@, action.target, TRUE)]
                   [] action.action = "retract" ->
                          [hal EXCEPT !.outputs = MapInsert(@, action.target, FALSE)]
                   [] action.action = "set" ->
                          [hal EXCEPT !.outputs =
                              MapInsert(@, action.target, action.value = "on")]
                   [] OTHER -> hal
         IN run_actions(written, Tail(actions))

\* emit_transition_side_effects: the actions that are not entry actions
transition_side_effects(transition_actions, entry_actions) ==
    SelectSeq(transition_actions, LAMBDA action : action \notin Range(entry_actions))

\* the operands the conditions of the programs read
InputDevices == {"sensor_A", "sensor_B"}

\* parse_guard_expression: `device op value` of an expression of three
\* words with op == or !=, on the expressions over InputDevices
parse_guard_expression(expression) ==
    LET parsed == {c \in [device : InputDevices, op : {"==", "!="},
                          value : {"true", "false"}] :
                      expression = c.device \o " " \o c.op \o " " \o c.value}
    IN IF parsed = {} THEN None ELSE Some(CHOOSE c \in parsed : TRUE)

\* the condition emit_condition writes, evaluated on the hal; an expression
\* that does not parse is written as `true`
condition_holds(hal, expression) ==
    LET cond == parse_guard_expression(expression)
    IN IF ~IsSome(cond) THEN TRUE
       ELSE IF Unwrap(cond).op = "=="
            THEN read_digital_input(hal, Unwrap(cond).device) = (Unwrap(cond).value = "true")
            ELSE read_digital_input(hal, Unwrap(cond).device) # (Unwrap(cond).value = "true")

\* the timers.start calls of an arm: one per timer name, in the order of
\* the transitions
RECURSIVE start_timers(_, _, _)
start_timers(bank, operations, seen_timers) ==
    IF operations = <<>> THEN bank
    ELSE LET op == Head(operations)
         IN IF op.operation = "start" /\ op.timer_name \notin seen_timers
            THEN start_timers(timer_start(bank, op.timer_name, op.duration_ms),
                              Tail(operations), seen_timers \cup {op.timer_name})
            ELSE start_timers(bank, Tail(operations), seen_timers)

\* the timer a timeout check reads: the first Start operation of the
\* transition
checked_timer_name(transition) ==
    LET starts == SelectSeq(transition.timers, LAMBDA op : op.operation = "start")
    IN IF starts = <<>> THEN "unknown_timer" ELSE starts[1].timer_name

\* the if / else if chain of an arm: the first timeout whose timer is
\* expired, else the first condition that holds
RECURSIVE first_taken(_, _, _)
first_taken(branches, hal, bank) ==
    IF branches = <<>> THEN None
    ELSE IF \/ /\ Head(branches).guard.kind = "timeout"
               /\ timer_expired(bank, checked_timer_name(Head(branches)))
            \/ /\ Head(branches).guard.kind = "condition"
               /\ condition_holds(hal, Head(branches).guard.expression)
         THEN Some(Head(branches))
         ELSE first_taken(Tail(branches), hal, bank)

\* the statements after the chain: every always transition, in order
RECURSIVE run_always(_, _, _)
run_always(scan, always, entry_actions) ==
    IF always = <<>> THEN scan
    ELSE run_always([scan EXCEPT
                        !.hal = run_actions(@, transition_side_effects(Head(always).actions,
                                                                       entry_actions)),
                        !.state = Head(always).to],
                    Tail(always), entry_actions)

\* scan_cycle(state, hal, timers): the arm of the state
scan_cycle(state_machine, state, hal, timers) ==
    LET transitions == SelectSeq(state_machine.transitions, LAMBDA t : t.from = state)
        entering == SelectSeq(transitions,
                        LAMBDA t : t.guard.kind \in {"always", "condition"})
        entry_actions == IF entering = <<>> THEN <<>> ELSE entering[1].actions
        entered == run_actions(hal, entry_actions)
        started == start_timers(timers,
                       Concat([k \in DOMAIN transitions |-> transitions[k].timers]), {})
        timeouts == SelectSeq(transitions, LAMBDA t : t.guard.kind = "timeout")
        conditions == SelectSeq(transitions, LAMBDA t : t.guard.kind = "condition")
        always == SelectSeq(transitions, LAMBDA t : t.guard.kind = "always")
        taken == first_taken(timeouts \o conditions, entered, started)
        after_chain ==
            IF IsSome(taken)
            THEN [state |-> Unwrap(taken).to,
                  hal |-> run_actions(entered,
                              transition_side_effects(Unwrap(taken).actions,
                                                      entry_actions)),
                  timers |-> started]
            ELSE [state |-> state, hal |-> entered, timers |-> started]
    IN run_always(after_chain, always, entry_actions)

NoEngine ==
    [running |-> FALSE, state |-> State("", ""), hal |-> Hal(EmptyMap, EmptyMap),
     timers |-> NewTimerBank, cycle_time_ms |-> 0, cycle_count |-> 0]

\* ScanCycleEngine::new(hal, PlcState::initial(), cycle_time_ms, scan_cycle)
new_engine(hal, initial_state, cycle_time_ms) ==
    [running |-> TRUE, state |-> initial_state, hal |-> hal,
     timers |-> NewTimerBank, cycle_time_ms |-> cycle_time_ms, cycle_count |-> 0]

\* the cycles are counted up to this number
MaxCycles == 6

\* ScanCycleEngine::step after the call of scan_fn: flush_outputs, the
\* tick of the timers and the count of the cycle
after_scan(e, scan) ==
    [e EXCEPT !.state = scan.state,
              !.hal = scan.hal,
              !.timers = timer_tick(scan.timers, e.cycle_time_ms),
              !.cycle_count = IF @ < MaxCycles THEN @ + 1 ELSE @]

----------------------------------------------------------------------------

(* The pipeline: build_state_machine, then verify_safety_with_config or
   verify_liveness *)

NoStateMachine == BuildErr(<<>>)

NoModel ==
    [states |-> <<>>, initial_state |-> 1, edges |-> <<>>, outgoing |-> <<>>,
     devices |-> <<>>, suggested_depth |-> 1, max_scc_depth |-> 0]

NoDepthPlan == [effective_depth |-> 1, warnings |-> <<>>, truncated |-> FALSE]

NoSafetyResult ==
    [ok |-> FALSE, level |-> "", explored_depth |-> 0, warnings |-> <<>>,
     diagnostics |-> <<>>]

NoLivenessResult == [ok |-> FALSE, diagnostics |-> <<>>]

\* a builder that has not run, and a verifier that has not run
NotBuilt == [built |-> FALSE, ok |-> FALSE, value |-> None, errors |-> <<>>]

NotVerified == [verified |-> FALSE, ok |-> FALSE, diagnostics |-> <<>>]

NotVerifiedAtAll == [done |-> FALSE, ok |-> FALSE, summary |-> NoSummary, issues |-> <<>>]

Rules == constraint_set(program).safety

CurrentBinding == bind_rule(model, program.topology.devices, Rules[rule_index])

CurrentNode == nodes[Head(queue)]

\* build_state_machine(&program)
Build ==
    /\ pc = "start"
    /\ sm' = build_state_machine(program)
    /\ pc' = IF sm'.ok THEN "built" ELSE "build_failed"
    /\ UNCHANGED <<program, config, model, depth_plan, rule_index, nodes, queue,
                   shortest_depth, fully_explored, diagnostics, all_complete,
                   checked_rules, outcomes, safety_result, liveness_result>>
    /\ UNCHANGED ir_vars

\* verify_safety_with_config up to its loop over the rules
StartSafety ==
    /\ pc = "built"
    /\ model' = from_inputs(program, constraint_set(program), sm)
    /\ depth_plan' = build_depth_plan(model', config)
    /\ rule_index' = 1
    /\ pc' = "rules"
    /\ UNCHANGED <<program, config, sm, nodes, queue, shortest_depth,
                   fully_explored, diagnostics, all_complete, checked_rules,
                   outcomes, safety_result, liveness_result>>
    /\ UNCHANGED ir_vars

\* the two `continue`s at the head of the loop body
SkipRule ==
    /\ pc = "rules"
    /\ rule_index <= Len(Rules)
    /\ \/ Rules[rule_index].relation # "conflicts_with"
       \/ ~IsSome(CurrentBinding)
    /\ rule_index' = rule_index + 1
    /\ UNCHANGED <<program, config, pc, sm, model, depth_plan, nodes, queue,
                   shortest_depth, fully_explored, diagnostics, all_complete,
                   checked_rules, outcomes, safety_result, liveness_result>>
    /\ UNCHANGED ir_vars

\* analyze_rule up to its while loop
BeginRule ==
    /\ pc = "rules"
    /\ rule_index <= Len(Rules)
    /\ Rules[rule_index].relation = "conflicts_with"
    /\ IsSome(CurrentBinding)
    /\ checked_rules' = checked_rules + 1
    /\ nodes' = <<SearchNode(initial_concrete_state(model), 0, 0, 0)>>
    /\ queue' = <<1>>
    /\ shortest_depth' = MapInsert(EmptyMap, initial_concrete_state(model), 0)
    /\ fully_explored' = TRUE
    /\ pc' = "search"
    /\ UNCHANGED <<program, config, sm, model, depth_plan, rule_index,
                   diagnostics, all_complete, outcomes, safety_result,
                   liveness_result>>
    /\ UNCHANGED ir_vars

\* one iteration of the while loop: the dequeued node violates the rule
FoundConflict ==
    /\ pc = "search"
    /\ queue # <<>>
    /\ conflicts(CurrentNode.state, Unwrap(CurrentBinding))
    /\ LET rendered == render_path(model, nodes, Head(queue), Unwrap(CurrentBinding))
       IN diagnostics' = Append(diagnostics,
              [line |-> Max(program.constraints.safety[rule_index].line, 1),
               rule |-> rule_index,
               violation_path |-> rendered.lines,
               edge_ids |-> rendered.edge_ids])
    /\ outcomes' = Append(outcomes, [rule |-> rule_index, counterexample |-> TRUE,
                                     fully_explored |-> fully_explored])
    /\ queue' = Tail(queue)
    /\ rule_index' = rule_index + 1
    /\ pc' = "rules"
    /\ UNCHANGED <<program, config, sm, model, depth_plan, nodes, shortest_depth,
                   fully_explored, all_complete, checked_rules, safety_result,
                   liveness_result>>
    /\ UNCHANGED ir_vars

\* one iteration of the while loop: a node at the depth bound
CheckFrontier ==
    /\ pc = "search"
    /\ queue # <<>>
    /\ ~conflicts(CurrentNode.state, Unwrap(CurrentBinding))
    /\ CurrentNode.depth = depth_plan.effective_depth
    /\ fully_explored' = (fully_explored
                             /\ ~frontier_has_unknown(model, shortest_depth, CurrentNode))
    /\ queue' = Tail(queue)
    /\ UNCHANGED <<program, config, pc, sm, model, depth_plan, rule_index, nodes,
                   shortest_depth, diagnostics, all_complete, checked_rules,
                   outcomes, safety_result, liveness_result>>
    /\ UNCHANGED ir_vars

\* one iteration of the while loop: a node above the depth bound is expanded
ExpandNode ==
    /\ pc = "search"
    /\ queue # <<>>
    /\ ~conflicts(CurrentNode.state, Unwrap(CurrentBinding))
    /\ CurrentNode.depth # depth_plan.effective_depth
    /\ LET search == expand_node(model,
                         [nodes |-> nodes, queue |-> Tail(queue),
                          shortest_depth |-> shortest_depth],
                         Head(queue),
                         model.outgoing[CurrentNode.state.control_state], 1)
       IN /\ nodes' = search.nodes
          /\ queue' = search.queue
          /\ shortest_depth' = search.shortest_depth
    /\ UNCHANGED <<program, config, pc, sm, model, depth_plan, rule_index,
                   fully_explored, diagnostics, all_complete, checked_rules,
                   outcomes, safety_result, liveness_result>>
    /\ UNCHANGED ir_vars

\* the queue is empty: analyze_rule returns without counterexample
EndSearch ==
    /\ pc = "search"
    /\ queue = <<>>
    /\ outcomes' = Append(outcomes, [rule |-> rule_index, counterexample |-> FALSE,
                                     fully_explored |-> fully_explored])
    /\ all_complete' = (all_complete /\ fully_explored)
    /\ rule_index' = rule_index + 1
    /\ pc' = "rules"
    /\ UNCHANGED <<program, config, sm, model, depth_plan, nodes, queue,
                   shortest_depth, fully_explored, diagnostics, checked_rules,
                   safety_result, liveness_result>>
    /\ UNCHANGED ir_vars

\* verify_safety_with_config after its loop
FinishSafety ==
    /\ pc = "rules"
    /\ rule_index > Len(Rules)
    /\ LET complete == all_complete /\ ~depth_plan.truncated
       IN safety_result' =
              IF diagnostics # <<>>
              THEN [ok |-> FALSE, level |-> "", explored_depth |-> 0,
                    warnings |-> <<>>, diagnostics |-> diagnostics]
              ELSE IF checked_rules = 0 \/ complete
              THEN [ok |-> TRUE, level |-> "Complete",
                    explored_depth |-> depth_plan.effective_depth,
                    warnings |-> depth_plan.warnings, diagnostics |-> <<>>]
              ELSE [ok |-> TRUE, level |-> "Bounded",
                    explored_depth |-> depth_plan.effective_depth,
                    warnings |-> Append(depth_plan.warnings,
                                        BoundedWarning(depth_plan.effective_depth)),
                    diagnostics |-> <<>>]
    /\ pc' = "done"
    /\ UNCHANGED <<program, config, sm, model, depth_plan, rule_index, nodes,
                   queue, shortest_depth, fully_explored, diagnostics,
                   all_complete, checked_rules, outcomes, liveness_result>>
    /\ UNCHANGED ir_vars

\* verify_liveness(&program, &state_machine)
VerifyLiveness ==
    /\ pc = "built"
    /\ \E scc_diagnostics \in
           scc_diagnostic_orders(program, sm, collect_step_line_map(program)) :
           liveness_result' = verify_liveness(program, sm, scc_diagnostics)
    /\ pc' = "verified"
    /\ UNCHANGED <<program, config, sm, model, depth_plan, rule_index, nodes,
                   queue, shortest_depth, fully_explored, diagnostics,
                   all_complete, checked_rules, outcomes, safety_result>>
    /\ UNCHANGED ir_vars

\* a second call of verify_liveness(&program, &state_machine) on the inputs
\* of the first
VerifyLivenessAgain ==
    /\ pc = "verified"
    /\ \E scc_diagnostics \in
           scc_diagnostic_orders(program, sm, collect_step_line_map(program)) :
           liveness_result' = verify_liveness(program, sm, scc_diagnostics)
    /\ pc' = "verified_again"
    /\ UNCHANGED <<program, config, sm, model, depth_plan, rule_index, nodes,
                   queue, shortest_depth, fully_explored, diagnostics,
                   all_complete, checked_rules, outcomes, safety_result>>
    /\ UNCHANGED ir_vars

\* build_topology_graph(&program)
BuildTopology ==
    /\ ~topology_result.built
    /\ topology_result' = build_topology_graph(program)
    /\ UNCHANGED <<program, pc, sm, liveness_result, constraints_result,
                   timing_result, causality_result,
                   verification, compiled>>
    /\ UNCHANGED safety_vars

\* build_constraint_set(&program)
BuildConstraintSet ==
    /\ ~constraints_result.built
    /\ constraints_result' = build_constraint_set(program)
    /\ UNCHANGED <<program, pc, sm, liveness_result, topology_result,
                   timing_result, causality_result,
                   verification, compiled>>
    /\ UNCHANGED safety_vars

\* timing::verify_timing(program, topology, constraints, state_machine), which
\* verify_all reaches when every builder has returned Ok
VerifyTiming ==
    /\ pc = "built"
    /\ topology_result.ok
    /\ constraints_result.ok
    /\ ~timing_result.verified
    /\ timing_result' = verify_timing(program, Unwrap(topology_result.value),
                                      Unwrap(constraints_result.value), sm)
    /\ UNCHANGED <<program, pc, sm, liveness_result, topology_result,
                   constraints_result, causality_result,
                   verification, compiled>>
    /\ UNCHANGED safety_vars

\* causality::verify_causality(program, topology, constraints), which
\* verify_all reaches when every builder has returned Ok
VerifyCausality ==
    /\ pc = "built"
    /\ topology_result.ok
    /\ constraints_result.ok
    /\ ~causality_result.verified
    /\ causality_result' = verify_causality(program, Unwrap(topology_result.value),
                                            Unwrap(constraints_result.value))
    /\ UNCHANGED <<program, pc, sm, liveness_result, topology_result,
                   constraints_result, timing_result,
                   verification, compiled>>
    /\ UNCHANGED safety_vars

\* verify_all(&program, &topology, &constraints, &state_machine), called on
\* what the three builders returned; it may be called again
VerifyAll ==
    /\ pc = "built"
    /\ topology_result.ok
    /\ constraints_result.ok
    /\ \E scc_diagnostics \in
           scc_diagnostic_orders(program, sm, collect_step_line_map(program)) :
           verification' = verify_all(program, Unwrap(topology_result.value),
                                      Unwrap(constraints_result.value), sm,
                                      scc_diagnostics)
    /\ UNCHANGED <<program, pc, sm, liveness_result, topology_result,
                   constraints_result, timing_result, causality_result, compiled>>
    /\ UNCHANGED safety_vars

\* compile_pipeline(&source) from the parsed program on
CompilePipeline ==
    /\ ~compiled.done
    /\ \E scc_diagnostics \in
           (IF build_state_machine(program).ok
            THEN scc_diagnostic_orders(program, build_state_machine(program),
                                       collect_step_line_map(program))
            ELSE {<<>>}) :
           compiled' = compile_pipeline(program, scc_diagnostics)
    /\ UNCHANGED <<program, pc, sm, liveness_result, topology_result,
                   constraints_result, timing_result, causality_result,
                   verification>>
    /\ UNCHANGED safety_vars

InitPipeline ==
    /\ pc = "start"
    /\ sm = NoStateMachine
    /\ model = NoModel
    /\ depth_plan = NoDepthPlan
    /\ rule_index = 1
    /\ nodes = <<>>
    /\ queue = <<>>
    /\ shortest_depth = EmptyMap
    /\ fully_explored = TRUE
    /\ diagnostics = <<>>
    /\ all_complete = TRUE
    /\ checked_rules = 0
    /\ outcomes = <<>>
    /\ safety_result = NoSafetyResult
    /\ liveness_result = NoLivenessResult
    /\ topology_result = NotBuilt
    /\ constraints_result = NotBuilt
    /\ timing_result = NotVerified
    /\ causality_result = NotVerified
    /\ verification = NotVerifiedAtAll
    /\ compiled = NotCompiled
    /\ engine = NoEngine

----------------------------------------------------------------------------
(* Inputs: bounded families of programs *)

\* the largest number of steps of a program, all tasks together
MaxSteps == 2

\* the largest bmc_max_depth tried
MaxLimit == 4

Topology ==
    [devices |-> <<DeviceDeclaration(1, "cyl_A", "cylinder", DefaultAttributes),
                   DeviceDeclaration(2, "cyl_B", "cylinder", DefaultAttributes),
                   DeviceDeclaration(3, "lamp", "digital_output", DefaultAttributes)>>]

TaskName(i) == "t" \o ToString(i)
StepName(j) == "s" \o ToString(j)

SensorWait(sensor) == Wait(ConditionExpression(sensor, "eq", BooleanLiteral("true")))
TimeoutTo(value, task) == Timeout(DurationValue(value, "ms"), GotoDirective(0, task))

\* a task before its name and lines are known: the statements of its steps
\* and its on_complete directive
TaskShapes(bodies, on_completes, k) ==
    {[bodies |-> b, on_complete |-> oc] :
        b \in [1..k -> bodies], oc \in on_completes}

\* every list of task shapes with at most n steps in all
RECURSIVE ShapeLists(_, _, _)
ShapeLists(bodies, on_completes, n) ==
    {<<>>} \cup
    UNION {{<<shape>> \o rest :
               shape \in TaskShapes(bodies, on_completes, k),
               rest \in ShapeLists(bodies, on_completes, n - k)} : k \in 1..n}

\* parse_task_declaration: on_complete_line is the line of the on_complete
\* statement when the task has one
OnCompleteLineAt(i, on_complete) ==
    IF IsSome(on_complete) THEN Some(100 * i + 90) ELSE None

\* the task declarations of a list of shapes; step_names[j] is the name of
\* the j-th step of every task
TasksOf(shapes, step_names) ==
    [i \in DOMAIN shapes |->
        TaskDeclaration(100 * i, TaskName(i),
            [j \in DOMAIN shapes[i].bodies |->
                StepDeclaration(100 * i + 10 * j, step_names[j], shapes[i].bodies[j])],
            OnCompleteLineAt(i, shapes[i].on_complete), shapes[i].on_complete)]

DistinctStepNames == [j \in 1..(MaxSteps + 1) |-> StepName(j)]

ExtendBoth == Parallel(<<Branch(<<Extend("cyl_A")>>), Branch(<<Extend("cyl_B")>>)>>)

SafetyBodies ==
    {<<Extend("cyl_A")>>,
     <<Extend("cyl_B"), SensorWait("sensor_B"), TimeoutTo(100, "t2")>>,
     <<Set("lamp", "on"), Retract("cyl_B"), Goto(0, "t1")>>,
     <<ExtendBoth>>}

SafetyOnCompletes == {None, Some(OnCompleteGoto("t1"))}

ConflictAB == SafetyConstraint(6, "cyl_A", "extended", "conflicts_with", "cyl_B", "extended")
ConflictALamp == SafetyConstraint(5, "cyl_A", "extended", "conflicts_with", "lamp", "on")
RequiresBA == SafetyConstraint(4, "cyl_B", "extended", "requires", "cyl_A", "retracted")

\* a rule on a device the topology does not declare: bind_rule gives None
ConflictUndeclared ==
    SafetyConstraint(7, "cyl_A", "extended", "conflicts_with", "cyl_C", "extended")

SafetyRuleLists ==
    {<<RequiresBA, ConflictUndeclared>>, <<ConflictAB>>,
     <<RequiresBA, ConflictALamp, ConflictAB>>}

Limits == {None} \cup {Some(l) : l \in 0..MaxLimit}

InitSafety ==
    /\ \E shapes \in ShapeLists(SafetyBodies, SafetyOnCompletes, MaxSteps) \ {<<>>},
          rules \in SafetyRuleLists :
          program = [topology |-> Topology,
                     constraints |-> [safety |-> rules],
                     tasks |-> TasksOf(shapes, DistinctStepNames)]
    /\ config \in [bmc_max_depth : Limits]
    /\ InitPipeline

Next ==
    \/ Build
    \/ StartSafety
    \/ SkipRule
    \/ BeginRule
    \/ FoundConflict
    \/ CheckFrontier
    \/ ExpandNode
    \/ EndSearch
    \/ FinishSafety

Spec == InitSafety /\ [][Next]_vars

\* the loops of verify_safety_with_config and of analyze_rule are sequential
\* code: the iteration that is enabled is taken
SearchFairness ==
    /\ WF_vars(SkipRule)
    /\ WF_vars(BeginRule)
    /\ WF_vars(FoundConflict)
    /\ WF_vars(CheckFrontier)
    /\ WF_vars(ExpandNode)
    /\ WF_vars(EndSearch)
    /\ WF_vars(FinishSafety)

\* the programs of InitSafety under the list of three rules: one that is
\* skipped and two that are searched
InitSearch ==
    /\ \E shapes \in ShapeLists(SafetyBodies, SafetyOnCompletes, MaxSteps) \ {<<>>} :
          program = [topology |-> Topology,
                     constraints |-> [safety |-> <<RequiresBA, ConflictALamp, ConflictAB>>],
                     tasks |-> TasksOf(shapes, DistinctStepNames)]
    /\ config \in [bmc_max_depth : Limits]
    /\ InitPipeline

SpecSearch == InitSearch /\ [][Next]_vars /\ SearchFairness

\* programs for the rules that are not searched: a sensor detects cyl_A.on,
\* so build_constraint_set accepts a rule on that state; lists that mix
\* requires rules with conflicts_with rules
FrameTopology ==
    [devices |-> Topology.devices \o
        <<DeviceDeclaration(4, "sensor_on", "sensor",
              DeviceAttributes(None, None, None, None, None,
                               Some(StateReference("cyl_A", "on"))))>>]

FrameBodies ==
    {<<Extend("cyl_A")>>,
     <<Retract("cyl_B"), Extend("cyl_A")>>,
     <<Set("cyl_A", "on"), Extend("cyl_B")>>,
     <<Set("lamp", "on")>>}

RequiresOn == SafetyConstraint(8, "cyl_A", "on", "requires", "cyl_B", "retracted")

FrameRuleLists ==
    {<<RequiresBA>>,
     <<RequiresBA, ConflictAB>>,
     <<ConflictAB, RequiresOn>>,
     <<RequiresBA, ConflictALamp, RequiresOn, ConflictAB>>}

InitFrame ==
    /\ \E shapes \in ShapeLists(FrameBodies, SafetyOnCompletes, MaxSteps) \ {<<>>},
          rules \in FrameRuleLists :
          program = [topology |-> FrameTopology,
                     constraints |-> [safety |-> rules],
                     tasks |-> TasksOf(shapes, DistinctStepNames)]
    /\ config \in [bmc_max_depth : {None, Some(1)}]
    /\ InitPipeline

SpecFrame == InitFrame /\ [][Next]_vars

\* programs for the actions of the safety model: tasks whose last step has
\* actions, with and without on_complete; no depth limit
ActionBodies ==
    {<<Extend("cyl_A")>>,
     <<Extend("cyl_B")>>,
     <<Retract("cyl_A"), Extend("cyl_B"), SensorWait("sensor_B")>>,
     <<Set("lamp", "on"), ExtendBoth>>,
     <<Extend("cyl_B"), Goto(0, "t1")>>}

InitActions ==
    /\ \E shapes \in ShapeLists(ActionBodies, SafetyOnCompletes, MaxSteps) \ {<<>>},
          rules \in {<<ConflictAB>>, <<ConflictUndeclared, ConflictAB, ConflictALamp>>} :
          program = [topology |-> Topology,
                     constraints |-> [safety |-> rules],
                     tasks |-> TasksOf(shapes, DistinctStepNames)]
    /\ config = [bmc_max_depth |-> None]
    /\ InitPipeline

SpecActions == InitActions /\ [][Next]_vars

\* programs built around parallel blocks: two branches on different devices,
\* two branches on the same device, a nested block and a race in a branch
OpposeA == Parallel(<<Branch(<<Extend("cyl_A")>>),
                      Branch(<<Retract("cyl_A"), Extend("cyl_B")>>)>>)

NestedBlocks ==
    Parallel(<<Branch(<<ExtendBoth>>),
               Branch(<<Set("lamp", "on"),
                        Race(<<RaceBranch(<<Extend("cyl_A")>>, None),
                               RaceBranch(<<Retract("cyl_B")>>,
                                          Some(GotoDirective(0, "t1")))>>)>>)>>)

ParallelBodies == {<<ExtendBoth>>, <<OpposeA>>, <<NestedBlocks>>, <<Extend("cyl_A")>>}

InitParallel ==
    /\ \E shapes \in ShapeLists(ParallelBodies, SafetyOnCompletes, MaxSteps) \ {<<>>} :
          program = [topology |-> Topology,
                     constraints |-> [safety |-> <<RequiresBA, ConflictAB>>],
                     tasks |-> TasksOf(shapes, DistinctStepNames)]
    /\ config \in [bmc_max_depth : Limits]
    /\ InitPipeline

SpecParallel == InitParallel /\ [][Next]_vars

\* programs for the liveness checks: waits with and without a way out, at
\* the step and inside branches, self-loops and cycles between tasks, steps
\* of one name in one task, and targets that may not be defined
TaskNames == <<"t1", "t2">>

RECURSIVE ShapeListsOf(_, _, _, _)
ShapeListsOf(bodies, on_completes, n, tasks) ==
    IF tasks = 0 THEN {<<>>}
    ELSE {<<>>} \cup
         UNION {{<<shape>> \o rest :
                    shape \in TaskShapes(bodies, on_completes, k),
                    rest \in ShapeListsOf(bodies, on_completes, n - k, tasks - 1)} :
                k \in 1..n}

SameStepNames == [j \in 1..(MaxSteps + 1) |-> StepName(1)]

WaitBoth ==
    Parallel(<<Branch(<<SensorWait("sensor_A")>>), Branch(<<SensorWait("sensor_A")>>)>>)

RaceWithFlag ==
    Race(<<RaceBranch(<<SensorWait("sensor_B"), AllowIndefiniteWait(TRUE)>>,
                      Some(GotoDirective(0, "t2"))),
           RaceBranch(<<ExtendBoth>>, None)>>)

WaitOrTimeout ==
    Parallel(<<Branch(<<SensorWait("sensor_B"), TimeoutTo(100, "t1")>>),
               Branch(<<Extend("cyl_A")>>)>>)

LivenessBodies ==
    {<<Log("start")>>,
     <<SensorWait("sensor_A")>>,
     <<SensorWait("sensor_A"), TimeoutTo(100, "t1")>>,
     <<SensorWait("sensor_A"), AllowIndefiniteWait(TRUE)>>,
     <<AllowIndefiniteWait(FALSE), WaitBoth>>,
     <<RaceWithFlag>>,
     <<WaitOrTimeout>>,
     <<Extend("cyl_A"), Goto(0, "t1")>>}

LivenessOnCompletes == {None, Some(OnCompleteGoto("t1")), Some(OnCompleteGoto("t2"))}

InitLiveness ==
    /\ \E shapes \in ShapeListsOf(LivenessBodies, LivenessOnCompletes, MaxSteps,
                                  Len(TaskNames)) \ {<<>>},
          step_names \in {DistinctStepNames, SameStepNames} :
          program = [topology |-> Topology,
                     constraints |-> [safety |-> <<>>],
                     tasks |-> TasksOf(shapes, step_names)]
    /\ config = [bmc_max_depth |-> None]
    /\ InitPipeline

NextLiveness ==
    \/ Build
    \/ VerifyLiveness

SpecLiveness == InitLiveness /\ [][NextLiveness]_vars

\* programs whose last steps are blocks of plain actions, in tasks with and
\* without on_complete
RaceOfActions ==
    Race(<<RaceBranch(<<Extend("cyl_A")>>, None), RaceBranch(<<Extend("cyl_B")>>, None)>>)

TerminalBodies ==
    {<<Log("start")>>,
     <<Extend("cyl_A")>>,
     <<ExtendBoth>>,
     <<RaceOfActions>>,
     <<SensorWait("sensor_A"), TimeoutTo(100, "t1")>>}

TerminalOnCompletes == {None, Some(OnCompleteGoto("t1"))}

InitTerminals ==
    /\ \E shapes \in ShapeListsOf(TerminalBodies, TerminalOnCompletes, MaxSteps,
                                  Len(TaskNames)) \ {<<>>} :
          program = [topology |-> Topology,
                     constraints |-> [safety |-> <<>>],
                     tasks |-> TasksOf(shapes, DistinctStepNames)]
    /\ config = [bmc_max_depth |-> None]
    /\ InitPipeline

SpecTerminals == InitTerminals /\ [][NextLiveness]_vars

NextRepeat ==
    \/ Build
    \/ VerifyLiveness
    \/ VerifyLivenessAgain

\* the programs of SpecLiveness, verified twice
SpecRepeat == InitLiveness /\ [][NextRepeat]_vars

\* programs for the checks of completion: tasks declared on_complete:
\* unreachable, and last steps whose paths all jump away, or not
RaceAllJump ==
    Race(<<RaceBranch(<<SensorWait("sensor_A")>>, Some(GotoDirective(0, "t1"))),
           RaceBranch(<<SensorWait("sensor_B")>>, Some(GotoDirective(0, "t1")))>>)

RaceOneFallsThrough ==
    Race(<<RaceBranch(<<SensorWait("sensor_A")>>, Some(GotoDirective(0, "t1"))),
           RaceBranch(<<SensorWait("sensor_B")>>, None)>>)

RaceOfBlocks ==
    Race(<<RaceBranch(<<WaitBoth>>, Some(GotoDirective(0, "t1"))),
           RaceBranch(<<Extend("cyl_A")>>, Some(GotoDirective(0, "t1")))>>)

CompletionBodies ==
    {<<Log("start")>>,
     <<SensorWait("sensor_A"), TimeoutTo(100, "t1")>>,
     <<Extend("cyl_A"), Goto(0, "t1")>>,
     <<RaceAllJump, TimeoutTo(100, "t1")>>,
     <<RaceOneFallsThrough>>,
     <<RaceOfBlocks>>,
     <<AllowIndefiniteWait(TRUE), WaitBoth>>}

CompletionOnCompletes ==
    {None, Some(OnCompleteUnreachable), Some(OnCompleteGoto("t1"))}

InitCompletion ==
    /\ \E shapes \in ShapeListsOf(CompletionBodies, CompletionOnCompletes, MaxSteps,
                                  Len(TaskNames)) \ {<<>>} :
          program = [topology |-> Topology,
                     constraints |-> [safety |-> <<>>],
                     tasks |-> TasksOf(shapes, DistinctStepNames)]
    /\ config = [bmc_max_depth |-> None]
    /\ InitPipeline

SpecCompletion == InitCompletion /\ [][NextLiveness]_vars

\* topology sections: every list of at most MaxDevices devices of any kind,
\* each connected to nothing, to a device of the section (itself, an
\* earlier or a later one) or to a device the section does not declare; a
\* device may take the name of an earlier one
MaxDevices == 2

DeviceName(i) == "d" \o ToString(i)

DeviceKinds ==
    {"digital_output", "digital_input", "solenoid_valve", "cylinder", "sensor", "motor"}

ConnectedTo(target) == DeviceAttributes(target, None, None, None, None, None)

DevicesAt(i, n) ==
    {DeviceDeclaration(10 * i, DeviceName(j), kind, ConnectedTo(target)) :
        j \in 1..i, kind \in DeviceKinds,
        target \in {None, Some("ghost")} \cup {Some(DeviceName(k)) : k \in 1..n}}

RECURSIVE DeviceLists(_, _)
DeviceLists(i, n) ==
    IF i > n THEN {<<>>}
    ELSE {<<device>> \o rest : device \in DevicesAt(i, n), rest \in DeviceLists(i + 1, n)}

NoConstraints == [safety |-> <<>>, timing |-> <<>>, causality |-> <<>>]

InitTopology ==
    /\ \E n \in 1..MaxDevices : \E devices \in DeviceLists(1, n) :
          program = [topology |-> [devices |-> devices],
                     constraints |-> NoConstraints,
                     tasks |-> <<>>]
    /\ config = [bmc_max_depth |-> None]
    /\ InitPipeline

NextTopology == BuildTopology

SpecTopology == InitTopology /\ [][NextTopology]_vars

\* programs for the constraint-set builder: a topology in which a sensor
\* detects a state of the cylinder outside the cylinder's default states,
\* two tasks, and every choice of at most MaxRules safety rules, at most
\* MaxRules timing rules and at most one causality chain, with references
\* that resolve and references that do not
MaxRules == 2

Detecting(device, state) ==
    DeviceAttributes(None, None, None, None, None, Some(StateReference(device, state)))

ConstraintTopology ==
    [devices |-> <<DeviceDeclaration(1, "cyl_A", "cylinder", DefaultAttributes),
                   DeviceDeclaration(2, "lamp", "digital_output", DefaultAttributes),
                   DeviceDeclaration(3, "sensor_A", "sensor", Detecting("cyl_A", "mid"))>>]

ConstraintTasks ==
    <<TaskDeclaration(100, "t1",
          <<StepDeclaration(110, "s1", <<Log("start")>>),
            StepDeclaration(120, "s2", <<Log("start")>>)>>, None, None),
      TaskDeclaration(200, "t2", <<StepDeclaration(210, "s1", <<Log("start")>>)>>, None, None)>>

SafetyRuleChoices ==
    {SafetyConstraint(0, "cyl_A", "extended", "conflicts_with", "lamp", "on"),
     SafetyConstraint(0, "cyl_A", "mid", "requires", "sensor_A", "off"),
     SafetyConstraint(0, "ghost", "on", "conflicts_with", "cyl_A", "retracted"),
     SafetyConstraint(0, "cyl_A", "on", "conflicts_with", "lamp", "extended"),
     SafetyConstraint(0, "lamp", "mid", "requires", "cyl_A", "")}

TimingRuleChoices ==
    {TimingConstraint(0, TimingTarget("task", "t2", ""), "must_complete_within",
                      DurationValue(1, "s")),
     TimingConstraint(0, TimingTarget("step", "t1", "s2"), "must_start_after",
                      DurationValue(100, "ms")),
     TimingConstraint(0, TimingTarget("task", "t3", ""), "must_start_after",
                      DurationValue(100, "ms")),
     TimingConstraint(0, TimingTarget("step", "t2", "s2"), "must_complete_within",
                      DurationValue(100, "ms")),
     TimingConstraint(0, TimingTarget("step", "t3", "s1"), "must_complete_within",
                      DurationValue(100, "ms"))}

CausalityChoices ==
    {<<>>,
     <<CausalityConstraint(0, <<StateReference("cyl_A", ""), StateReference("sensor_A", "")>>)>>,
     <<CausalityConstraint(0, <<StateReference("ghost", ""), StateReference("cyl_A", ""),
                                StateReference("valve_A", "")>>)>>}

\* the lists of at most n elements of S
RECURSIVE ListsUpTo(_, _)
ListsUpTo(S, n) ==
    IF n = 0 THEN {<<>>}
    ELSE {<<>>} \cup {<<x>> \o rest : x \in S, rest \in ListsUpTo(S, n - 1)}

\* the constraints of a list on the lines after `above`
OnLines(constraints, above) ==
    [i \in DOMAIN constraints |-> [constraints[i] EXCEPT !.line = above + i]]

InitConstraints ==
    /\ \E safety \in ListsUpTo(SafetyRuleChoices, MaxRules),
          timing \in ListsUpTo(TimingRuleChoices, MaxRules),
          causality \in CausalityChoices :
          program = [topology |-> ConstraintTopology,
                     constraints |-> [safety |-> OnLines(safety, 10),
                                      timing |-> OnLines(timing, 20),
                                      causality |-> OnLines(causality, 30)],
                     tasks |-> ConstraintTasks]
    /\ config = [bmc_max_depth |-> None]
    /\ InitPipeline

NextConstraints == BuildConstraintSet

SpecConstraints == InitConstraints /\ [][NextConstraints]_vars

\* programs for the timing verifier: a cylinder behind a valve behind an
\* output, each with its times, a motor on the same output and a lamp
\* without times; steps of actions and timeouts, at the step and in
\* branches; and two rules of one scope and one duration, the first
\* must_complete_within and the second must_start_after
Timed(connected_to, response_time, stroke_time, retract_time, ramp_time) ==
    DeviceAttributes(connected_to, response_time, stroke_time, retract_time,
                     ramp_time, None)

Ms(value) == Some(DurationValue(value, "ms"))

TimingTopology ==
    [devices |->
        <<DeviceDeclaration(1, "Y0", "digital_output", Timed(None, Ms(20), None, None, None)),
          DeviceDeclaration(2, "valve_A", "solenoid_valve",
                            Timed(Some("Y0"), Ms(30), None, None, None)),
          DeviceDeclaration(3, "cyl_A", "cylinder",
                            Timed(Some("valve_A"), None, Ms(200), Ms(300), None)),
          DeviceDeclaration(4, "motor_A", "motor", Timed(Some("Y0"), None, None, None, Ms(50))),
          DeviceDeclaration(5, "lamp", "digital_output", DefaultAttributes)>>]

ExtendOrRun ==
    Parallel(<<Branch(<<Extend("cyl_A"), Set("lamp", "on")>>),
               Branch(<<Set("motor_A", "on"), SensorWait("sensor_A"),
                        TimeoutTo(300, "t1")>>)>>)

TimingBodies ==
    {<<Extend("cyl_A")>>,
     <<Extend("cyl_A"), SensorWait("sensor_A"), TimeoutTo(100, "t2")>>,
     <<ExtendOrRun>>,
     <<Retract("cyl_A"), SensorWait("sensor_A"), TimeoutTo(300, "t1")>>}

TimingScopes ==
    {TimingTarget("task", "t1", ""), TimingTarget("task", "t2", ""),
     TimingTarget("step", "t1", "s1"), TimingTarget("step", "t1", "s2")}

TimingDurations ==
    {DurationValue(100, "ms"), DurationValue(200, "ms"), DurationValue(250, "ms"),
     DurationValue(500, "ms")}

InitTiming ==
    /\ \E shapes \in ShapeListsOf(TimingBodies, SafetyOnCompletes, MaxSteps,
                                  Len(TaskNames)) \ {<<>>},
          step_names \in {DistinctStepNames, SameStepNames},
          scope \in TimingScopes, duration \in TimingDurations :
          program = [topology |-> TimingTopology,
                     constraints |->
                         [safety |-> <<>>,
                          timing |-> <<TimingConstraint(21, scope, "must_complete_within",
                                                        duration),
                                       TimingConstraint(22, scope, "must_start_after",
                                                        duration)>>,
                          causality |-> <<>>],
                     tasks |-> TasksOf(shapes, step_names)]
    /\ config = [bmc_max_depth |-> None]
    /\ InitPipeline

NextTiming ==
    \/ BuildTopology
    \/ BuildConstraintSet
    \/ Build
    \/ VerifyTiming

SpecTiming == InitTiming /\ [][NextTiming]_vars

\* programs for the estimates of the timing verifier: the steps of
\* InitTiming under one rule
InitEstimates ==
    /\ \E shapes \in ShapeListsOf(TimingBodies, SafetyOnCompletes, MaxSteps,
                                  Len(TaskNames)) \ {<<>>},
          step_names \in {DistinctStepNames, SameStepNames} :
          program = [topology |-> TimingTopology,
                     constraints |->
                         [safety |-> <<>>,
                          timing |-> <<TimingConstraint(21, TimingTarget("task", "t1", ""),
                                                        "must_complete_within",
                                                        DurationValue(250, "ms"))>>,
                          causality |-> <<>>],
                     tasks |-> TasksOf(shapes, step_names)]
    /\ config = [bmc_max_depth |-> None]
    /\ InitPipeline

SpecEstimates == InitEstimates /\ [][NextTiming]_vars

\* programs for the duration of one action: an output Y0 that may be wired
\* behind a second output Y1 or behind itself (digital_output to
\* digital_output is a "logical" connection, so build_topology_graph accepts
\* the loop), a valve on Y0 and a cylinder on the valve; every timing
\* attribute is present or absent on its own
OptionalMs(value) == {None, Ms(value)}

DurationTopologies ==
    {[devices |->
         <<DeviceDeclaration(1, "Y0", "digital_output",
                             Timed(y0_from, y0_response, None, None, y0_ramp)),
           DeviceDeclaration(2, "Y1", "digital_output",
                             Timed(y1_from, Ms(40), None, None, None)),
           DeviceDeclaration(3, "valve_A", "solenoid_valve",
                             Timed(Some("Y0"), valve_response, None, None, None)),
           DeviceDeclaration(4, "cyl_A", "cylinder",
                             Timed(Some("valve_A"), response, stroke, retract, ramp))>>] :
        y0_from \in {None, Some("Y1"), Some("Y0")}, y1_from \in {None, Some("Y0")},
        y0_response \in OptionalMs(20), y0_ramp \in OptionalMs(5),
        valve_response \in OptionalMs(30),
        response \in OptionalMs(7), stroke \in OptionalMs(200),
        retract \in OptionalMs(300), ramp \in OptionalMs(9)}

DurationActions ==
    {Extend("cyl_A"), Retract("cyl_A"), Set("cyl_A", "on"), Set("valve_A", "on"),
     Set("Y0", "on"), Log("done")}

\* one step with one action, and a zero budget on the step, so that the
\* diagnostic of the rule carries the duration of the action
InitDurations ==
    /\ \E topology \in DurationTopologies, action \in DurationActions :
          program = [topology |-> topology,
                     constraints |->
                         [safety |-> <<>>,
                          timing |-> <<TimingConstraint(21, TimingTarget("step", "t1", "s1"),
                                                        "must_complete_within",
                                                        DurationValue(0, "ms"))>>,
                          causality |-> <<>>],
                     tasks |-> <<TaskDeclaration(100, "t1",
                                     <<StepDeclaration(110, "s1", <<action>>)>>,
                                     None, None)>>]
    /\ config = [bmc_max_depth |-> None]
    /\ InitPipeline

SpecDurations == InitDurations /\ [][NextTiming]_vars

\* programs for the timing model: a cylinder with every subset of its timing
\* attributes, a valve with response_time and a motor without attribute;
\* steps with the same action several times, at the step and inside the
\* branches of a parallel and of a race block, with an action on a device
\* that is not declared, and steps of one name in one task
TimingModelTopologies ==
    {[devices |->
         <<DeviceDeclaration(1, "Y0", "digital_output", DefaultAttributes),
           DeviceDeclaration(2, "valve_A", "solenoid_valve",
                             Timed(Some("Y0"), Ms(30), None, None, None)),
           DeviceDeclaration(3, "cyl_A", "cylinder",
                             Timed(Some("valve_A"), response, stroke, retract, ramp)),
           DeviceDeclaration(4, "motor_A", "motor",
                             Timed(Some("Y0"), None, None, None, None))>>] :
        response \in OptionalMs(7), stroke \in OptionalMs(200),
        retract \in OptionalMs(300), ramp \in OptionalMs(9)}

TimingModelBodies ==
    {<<Extend("cyl_A"),
       Parallel(<<Branch(<<Extend("cyl_A"), Log("out")>>),
                  Branch(<<Retract("cyl_A"), Set("motor_A", "on"),
                           Race(<<RaceBranch(<<Extend("cyl_A")>>, None)>>)>>)>>)>>,
     <<Race(<<RaceBranch(<<Set("valve_A", "on")>>, None),
              RaceBranch(<<Set("valve_A", "off"), SensorWait("sensor_A")>>, None)>>),
       Set("cyl_A", "on")>>,
     <<Retract("cyl_A"), Extend("cyl_A")>>,
     <<Extend("ghost"), Set("motor_A", "off")>>}

InitTimingModel ==
    /\ \E topology \in TimingModelTopologies,
          shapes \in ShapeListsOf(TimingModelBodies, {None}, MaxSteps,
                                  Len(TaskNames)) \ {<<>>},
          step_names \in {DistinctStepNames, SameStepNames} :
          program = [topology |-> topology,
                     constraints |-> [safety |-> <<>>, timing |-> <<>>,
                                      causality |-> <<>>],
                     tasks |-> TasksOf(shapes, step_names)]
    /\ config = [bmc_max_depth |-> None]
    /\ InitPipeline

SpecTimingModel == InitTimingModel /\ [][CompilePipeline]_vars

\* programs for the causality verifier: an output, a valve, a cylinder and a
\* sensor on an input, with or without the connected_to of the valve and of
\* the cylinder and with the sensor detecting the cylinder, the valve or
\* nothing; up to MaxRules declared chains; one task of one step
Wired(connected_to, detects) ==
    DeviceAttributes(connected_to, None, None, None, None, detects)

CausalityTopologies ==
    {[devices |->
         <<DeviceDeclaration(1, "Y0", "digital_output", DefaultAttributes),
           DeviceDeclaration(2, "X0", "digital_input", DefaultAttributes),
           DeviceDeclaration(3, "valve_A", "solenoid_valve", Wired(of_valve, None)),
           DeviceDeclaration(4, "cyl_A", "cylinder", Wired(of_cylinder, None)),
           DeviceDeclaration(5, "sensor_A_ext", "sensor", Wired(Some("X0"), detects))>>] :
        of_valve \in {None, Some("Y0")},
        of_cylinder \in {None, Some("valve_A")},
        detects \in {None, Some(StateReference("cyl_A", "extended")),
                     Some(StateReference("valve_A", "on"))}}

ChainOf(names) ==
    CausalityConstraint(0, [k \in DOMAIN names |-> StateReference(names[k], "")])

CausalityChains ==
    {ChainOf(<<"Y0", "valve_A", "cyl_A", "sensor_A_ext">>),
     ChainOf(<<"Y0", "cyl_A", "sensor_A_ext">>),
     ChainOf(<<"valve_A", "sensor_A_ext">>),
     ChainOf(<<"X0", "sensor_A_ext", "cyl_A">>),
     ChainOf(<<"sensor_A_ext", "cyl_A">>)}

CausalityBodies ==
    {<<Extend("cyl_A"), SensorWait("sensor_A_ext")>>,
     <<Extend("cyl_A")>>,
     <<Parallel(<<Branch(<<Set("valve_A", "on"), SensorWait("sensor_A_ext")>>),
                 Branch(<<Log("open")>>)>>)>>}

InitCausality ==
    /\ \E topology \in CausalityTopologies,
          chains \in ListsUpTo(CausalityChains, MaxRules),
          body \in CausalityBodies :
          program = [topology |-> topology,
                     constraints |-> [safety |-> <<>>, timing |-> <<>>,
                                      causality |-> OnLines(chains, 30)],
                     tasks |-> <<TaskDeclaration(100, "init",
                                     <<StepDeclaration(110, "extend_A", body)>>, None, None)>>]
    /\ config = [bmc_max_depth |-> None]
    /\ InitPipeline

NextCausality ==
    \/ BuildTopology
    \/ BuildConstraintSet
    \/ Build
    \/ VerifyCausality

SpecCausality == InitCausality /\ [][NextCausality]_vars

\* programs for the pairs of the causality verifier: the actuators wired to
\* the output and detected by the sensor, or not wired at all; actions and
\* waits at the step and inside the branches of its blocks; waits on a
\* sensor by its name, by `sensor.state` and by a state of the sensor on the
\* right, waits on an input and on a device that is not declared
PairTopologies ==
    {[devices |->
         <<DeviceDeclaration(1, "Y0", "digital_output", DefaultAttributes),
           DeviceDeclaration(2, "X0", "digital_input", DefaultAttributes),
           DeviceDeclaration(3, "X1", "digital_input", DefaultAttributes),
           DeviceDeclaration(4, "valve_A", "solenoid_valve",
                             Wired(IF wired THEN Some("Y0") ELSE None, None)),
           DeviceDeclaration(5, "cyl_A", "cylinder",
                             Wired(IF wired THEN Some("valve_A") ELSE None, None)),
           DeviceDeclaration(6, "sensor_A", "sensor",
                             Wired(Some("X0"),
                                   IF wired THEN Some(StateReference("cyl_A", "extended"))
                                   ELSE None))>>] :
        wired \in BOOLEAN}

PairBodies ==
    {<<Extend("cyl_A"), SensorWait("sensor_A")>>,
     <<Extend("cyl_A"),
       Parallel(<<Branch(<<SensorWait("sensor_A")>>),
                  Branch(<<Set("valve_A", "on"), Log("open")>>)>>)>>,
     <<Race(<<RaceBranch(<<Retract("cyl_A"),
                           Wait(ConditionExpression("sensor_A.on", "eq",
                                                    BooleanLiteral("true"))),
                           SensorWait("X1")>>, None)>>),
       Wait(ConditionExpression("cyl_A", "eq", StateLiteral("sensor_A", "on")))>>,
     <<Set("valve_A", "on"), SensorWait("X1"), SensorWait("ghost"), Log("idle"),
       Wait(ConditionExpression("X1.on", "eq", BooleanLiteral("true")))>>,
     <<Extend("cyl_A"), Retract("cyl_A"), SensorWait("sensor_A"),
       Wait(ConditionExpression("X1", "neq", StateLiteral("sensor_A", "on")))>>}

InitPairs ==
    /\ \E topology \in PairTopologies,
          shapes \in ShapeListsOf(PairBodies, {None}, MaxSteps, Len(TaskNames)) \ {<<>>} :
          program = [topology |-> topology,
                     constraints |-> [safety |-> <<>>, timing |-> <<>>,
                                      causality |-> <<>>],
                     tasks |-> TasksOf(shapes, DistinctStepNames)]
    /\ config = [bmc_max_depth |-> None]
    /\ InitPipeline

SpecPairs == InitPairs /\ [][NextCausality]_vars

----------------------------------------------------------------------------
(* Inputs of verify_all and of the driver: programs on which each of the
   verifiers reports or not, and on which build_constraint_set or
   build_timing_model fails or not *)

\* an output, a valve, two cylinders and a sensor; cyl_A is behind the valve
\* or connected to nothing
DriverTopologies ==
    {[devices |->
         <<DeviceDeclaration(1, "Y0", "digital_output", Timed(None, Ms(20), None, None, None)),
           DeviceDeclaration(2, "X0", "digital_input", DefaultAttributes),
           DeviceDeclaration(3, "valve_A", "solenoid_valve",
                             Timed(Some("Y0"), Ms(30), None, None, None)),
           DeviceDeclaration(4, "cyl_A", "cylinder",
                             Timed(of_cylinder, None, Ms(200), Ms(300), None)),
           DeviceDeclaration(5, "cyl_B", "cylinder", DefaultAttributes),
           DeviceDeclaration(6, "sensor_A", "sensor",
                             Wired(Some("X0"), Some(StateReference("cyl_A", "extended"))))>>] :
        of_cylinder \in {None, Some("valve_A")}}

\* no rule, a rule the steps may violate, and a rule on a device that the
\* topology does not declare (build_constraint_set fails)
DriverSafetyRules ==
    {<<>>,
     <<SafetyConstraint(11, "cyl_A", "extended", "conflicts_with", "cyl_B", "extended")>>,
     <<SafetyConstraint(11, "cyl_A", "extended", "conflicts_with", "cyl_B", "extended"),
       SafetyConstraint(12, "cyl_B", "extended", "conflicts_with", "cyl_A", "extended")>>,
     <<SafetyConstraint(11, "ghost", "on", "conflicts_with", "cyl_B", "extended")>>}

DriverTimingRules ==
    {<<>>,
     <<TimingConstraint(21, TimingTarget("task", "t1", ""), "must_complete_within",
                        DurationValue(100, "ms"))>>}

DriverChains ==
    {<<>>,
     <<CausalityConstraint(31, [k \in 1..4 |->
           StateReference(<<"Y0", "valve_A", "cyl_A", "sensor_A">>[k], "")])>>}

\* steps: an action, an action and a wait with or without timeout, two
\* actions that conflict, an action on a device that is not declared
\* (build_timing_model fails)
DriverBodies ==
    {<<Extend("cyl_A")>>,
     <<Extend("cyl_A"), SensorWait("sensor_A")>>,
     <<Extend("cyl_A"), Extend("cyl_B"), SensorWait("sensor_A"), TimeoutTo(500, "t1")>>,
     <<Extend("cyl_B"), Set("motor_X", "on")>>}

InitDriver ==
    /\ \E topology \in DriverTopologies,
          safety \in DriverSafetyRules,
          timing \in DriverTimingRules,
          causality \in DriverChains,
          shapes \in ShapeListsOf(DriverBodies, SafetyOnCompletes, MaxSteps, 1) \ {<<>>} :
          program = [topology |-> topology,
                     constraints |-> [safety |-> safety, timing |-> timing,
                                      causality |-> causality],
                     tasks |-> TasksOf(shapes, DistinctStepNames)]
    /\ config = [bmc_max_depth |-> None]
    /\ InitPipeline

NextDriver ==
    \/ BuildTopology
    \/ BuildConstraintSet
    \/ Build
    \/ VerifyAll
    \/ CompilePipeline

SpecDriver == InitDriver /\ [][NextDriver]_vars

----------------------------------------------------------------------------

(* Inputs of the state-machine builder alone: task lists with faults *)

\* the choices of statements for a step declared on line `line`; every jump
\* has a line of its own, and "t2" and "ghost" are declared or not depending
\* on the rest of the task list
FaultyBodies(line) ==
    {<<Log("start")>>,
     <<Extend("cyl_A"), Goto(line + 1, "ghost")>>,
     <<SensorWait("sensor_A"),
       Timeout(DurationValue(100, "ms"), GotoDirective(line + 2, "t2"))>>,
     <<Race(<<RaceBranch(<<SensorWait("sensor_A"), Goto(line + 4, "t2")>>,
                         Some(GotoDirective(line + 3, "ghost"))),
              RaceBranch(<<SensorWait("sensor_B")>>,
                         Some(GotoDirective(line + 5, "t1")))>>)>>}

\* on_complete_line and on_complete of the task declared on line `line`: the
\* parser records the line of the on_complete statement; an AST that was
\* deserialized may lack it (#[serde(default)])
FaultyOnCompletes(line) ==
    {<<None, None>>,
     <<Some(line + 90), Some(OnCompleteGoto("t1"))>>,
     <<Some(line + 90), Some(OnCompleteGoto("ghost"))>>,
     <<None, Some(OnCompleteGoto("ghost"))>>}

RECURSIVE FaultySteps(_, _)
\* every list of at most n steps of the task declared on line `line`
FaultySteps(line, n) ==
    IF n = 0 THEN {<<>>}
    ELSE FaultySteps(line, n - 1) \cup
         {Append(steps, StepDeclaration(line + 10 * (Len(steps) + 1),
                                        StepName(Len(steps) + 1), body)) :
             steps \in {s \in FaultySteps(line, n - 1) : Len(s) = n - 1},
             body \in FaultyBodies(line + 10 * n)}

\* the i-th task declaration: any of the names, steps or none, any on_complete
FaultyTasks(i) ==
    {TaskDeclaration(100 * i, name, steps, oc[1], oc[2]) :
        name \in Range(TaskNames),
        steps \in FaultySteps(100 * i, MaxSteps),
        oc \in FaultyOnCompletes(100 * i)}

RECURSIVE FaultyTaskLists(_)
\* every list of at most n task declarations
FaultyTaskLists(n) ==
    IF n = 0 THEN {<<>>}
    ELSE FaultyTaskLists(n - 1) \cup
         {Append(tasks, task) :
             tasks \in {t \in FaultyTaskLists(n - 1) : Len(t) = n - 1},
             task \in FaultyTasks(n)}

InitBuilder ==
    /\ \E tasks \in FaultyTaskLists(Len(TaskNames)) :
          program = [topology |-> Topology,
                     constraints |-> [safety |-> <<>>],
                     tasks |-> tasks]
    /\ config = [bmc_max_depth |-> None]
    /\ InitPipeline

NextBuilder == Build

SpecBuilder == InitBuilder /\ [][NextBuilder]_vars

\* programs for the transitions of the builder: steps with several actions
\* and waits, with timeouts in ms and in s, alone, beside a wait, in a
\* branch of a parallel block and in a branch of a race block
TimeoutInParallel ==
    Parallel(<<Branch(<<Retract("cyl_A"), SensorWait("sensor_B"), TimeoutTo(100, "t1")>>),
               Branch(<<Extend("cyl_A")>>)>>)

TimeoutInRace ==
    Race(<<RaceBranch(<<Log("wait"), SensorWait("sensor_B"), TimeoutTo(300, "t1")>>,
                      Some(GotoDirective(0, "t2"))),
           RaceBranch(<<Extend("cyl_A")>>, None)>>)

TransitionBodies ==
    {<<Extend("cyl_A"), SensorWait("sensor_A"), Retract("cyl_B"), SensorWait("sensor_B")>>,
     <<Set("lamp", "on"), Extend("cyl_A"),
       Timeout(DurationValue(2, "s"), GotoDirective(0, "t1"))>>,
     <<Extend("cyl_A"), SensorWait("sensor_A"), TimeoutTo(100, "t1")>>,
     <<Extend("cyl_B"), TimeoutInParallel, TimeoutInRace,
       Timeout(DurationValue(2, "s"), GotoDirective(0, "t1"))>>,
     <<TimeoutInRace, Retract("cyl_B"), SensorWait("sensor_A")>>,
     <<Extend("cyl_A"), Goto(0, "t1")>>,
     <<Extend("cyl_A"), Retract("cyl_A")>>,
     <<SensorWait("sensor_A"), SensorWait("sensor_A")>>}

InitTransitions ==
    /\ \E shapes \in ShapeListsOf(TransitionBodies, LivenessOnCompletes, MaxSteps,
                                  Len(TaskNames)) \ {<<>>},
          step_names \in {DistinctStepNames, SameStepNames} :
          program = [topology |-> Topology,
                     constraints |-> [safety |-> <<>>],
                     tasks |-> TasksOf(shapes, step_names)]
    /\ config = [bmc_max_depth |-> None]
    /\ InitPipeline

SpecTransitions == InitTransitions /\ [][NextBuilder]_vars

\* programs for the lowering of parallel and race blocks: branches with
\* several waits and actions, plain branches, empty branches, branches with
\* a goto and a timeout, nested blocks, two blocks in one step, race
\* branches with and without then: goto
BranchOfWaits ==
    <<Extend("cyl_A"), SensorWait("sensor_A"), Retract("cyl_B"), SensorWait("sensor_B")>>

BranchOfGoto ==
    <<Set("lamp", "on"), SensorWait("sensor_A"), Goto(0, "t1"), TimeoutTo(100, "t1")>>

BlockBodies ==
    {<<Extend("cyl_B"),
       Parallel(<<Branch(BranchOfWaits), Branch(<<Extend("cyl_B"), Log("go")>>),
                  Branch(BranchOfGoto)>>),
       Retract("cyl_A")>>,
     <<Parallel(<<Branch(<<Extend("cyl_B")>>), Branch(<<>>)>>),
       SensorWait("sensor_A"),
       Parallel(<<Branch(<<Extend("cyl_A"), ExtendBoth>>), Branch(BranchOfGoto)>>)>>,
     <<Extend("cyl_A")>>,
     <<Extend("cyl_B"),
       Race(<<RaceBranch(<<Log("wait"), SensorWait("sensor_B"), SensorWait("sensor_A")>>,
                         Some(GotoDirective(0, "t2"))),
              RaceBranch(<<Extend("cyl_A")>>, None),
              RaceBranch(<<Retract("cyl_A")>>, Some(GotoDirective(0, "t1")))>>)>>,
     <<Race(<<RaceBranch(BranchOfGoto, None),
              RaceBranch(<<Extend("cyl_B"), ExtendBoth>>, Some(GotoDirective(0, "t1"))),
              RaceBranch(BranchOfWaits, None)>>),
       Race(<<RaceBranch(<<>>, None),
              RaceBranch(<<Race(<<RaceBranch(<<SensorWait("sensor_A")>>, None)>>)>>,
                         None)>>)>>}

InitBlocks ==
    /\ \E shapes \in ShapeListsOf(BlockBodies, LivenessOnCompletes, MaxSteps,
                                  Len(TaskNames)) \ {<<>>},
          step_names \in {DistinctStepNames, SameStepNames} :
          program = [topology |-> Topology,
                     constraints |-> [safety |-> <<>>],
                     tasks |-> TasksOf(shapes, step_names)]
    /\ config = [bmc_max_depth |-> None]
    /\ InitPipeline

SpecBlocks == InitBlocks /\ [][NextBuilder]_vars

\* programs for the scan-cycle executor: a step that waits with a timeout
\* of 100 ms or of 0 ms, a step with a timeout and no wait, steps of plain
\* actions; the engine runs with a cycle time of 50 ms or of 150 ms
EngineBodies ==
    {<<Extend("cyl_A"), SensorWait("sensor_A"), TimeoutTo(100, "t2")>>,
     <<Retract("cyl_A")>>,
     <<SensorWait("sensor_B"), TimeoutTo(0, "t2")>>,
     <<Set("lamp", "on"), TimeoutTo(200, "t1")>>}

EngineCycleTimes == {50, 150}

InitEngine ==
    /\ \E shapes \in ShapeListsOf(EngineBodies, SafetyOnCompletes, MaxSteps,
                                  Len(TaskNames)) \ {<<>>} :
          program = [topology |-> Topology,
                     constraints |-> [safety |-> <<>>, timing |-> <<>>,
                                      causality |-> <<>>],
                     tasks |-> TasksOf(shapes, DistinctStepNames)]
    /\ config = [bmc_max_depth |-> None]
    /\ InitPipeline

\* everything but the engine
pipeline_vars ==
    <<program, config, pc, sm, model, depth_plan, rule_index, nodes, queue,
      shortest_depth, fully_explored, diagnostics, all_complete,
      checked_rules, outcomes, safety_result, liveness_result,
      topology_result, constraints_result, timing_result, causality_result,
      verification, compiled>>

\* ScanCycleEngine::new on the state machine that was built
StartEngine ==
    /\ pc = "built"
    /\ ~engine.running
    /\ \E cycle_time_ms \in EngineCycleTimes :
           engine' = new_engine(Hal(EmptyMap, EmptyMap), sm.initial, cycle_time_ms)
    /\ UNCHANGED pipeline_vars

\* ScanCycleEngine::step: one pass of the loop of run_cycles or
\* run_realtime, the plant showing any inputs
StepEngine ==
    /\ pc = "built"
    /\ engine.running
    /\ \E inputs \in [InputDevices -> BOOLEAN] :
           \E scan \in {scan_cycle(sm, engine.state, Hal(inputs, engine.hal.outputs),
                                    engine.timers)} :
               engine' = after_scan(engine, scan)
    /\ UNCHANGED pipeline_vars

NextEngine ==
    \/ Build
    \/ StartEngine
    \/ StepEngine

\* run_realtime loops over step without end
EngineFairness ==
    /\ WF_vars(StartEngine)
    /\ WF_vars(StepEngine)

SpecEngine == InitEngine /\ [][NextEngine]_vars /\ EngineFairness

----------------------------------------------------------------------------

(* The safety model as a transition system, for the properties below *)

\* the concrete state an edge leads to: its target, and the devices of its
\* effect map set to the states it names
AfterEdge(cs, edge) ==
    [control_state |-> edge.to,
     device_states |-> [d \in DOMAIN cs.device_states |->
                           IF d \in DOMAIN edge.effects THEN edge.effects[d]
                           ELSE cs.device_states[d]]]

EdgesLeaving(control_state) ==
    {e \in DOMAIN model.edges : model.edges[e].from = control_state}

OneEdgeFrom(S) ==
    UNION {{AfterEdge(cs, model.edges[e]) : e \in EdgesLeaving(cs.control_state)} : cs \in S}

DefaultStateName(device_name) ==
    LET device == CHOOSE d \in Range(program.topology.devices) : d.name = device_name
    IN IF device.device_type = "cylinder" THEN "retracted" ELSE "off"

\* initial control state, every device at its default
InitialConcreteState ==
    [control_state |-> CHOOSE i \in DOMAIN model.states : model.states[i] = sm.initial,
     device_states |-> [d \in DOMAIN model.devices |->
                           CHOOSE k \in DOMAIN model.devices[d].states :
                               model.devices[d].states[k]
                                   = DefaultStateName(model.devices[d].name)]]

\* the concrete states reachable by at most k model edges
RECURSIVE ReachableWithin(_)
ReachableWithin(k) ==
    IF k = 0 THEN {InitialConcreteState}
    ELSE LET R == ReachableWithin(k - 1) IN R \cup OneEdgeFrom(R)

RECURSIVE ClosureOf(_)
ClosureOf(S) ==
    LET T == S \cup OneEdgeFrom(S) IN IF T = S THEN S ELSE ClosureOf(T)

\* the concrete states reachable by any finite sequence of model edges
ReachableStates == ClosureOf({InitialConcreteState})

DeviceStateName(cs, device_name) ==
    LET d == CHOOSE d \in DOMAIN model.devices : model.devices[d].name = device_name
    IN model.devices[d].states[cs.device_states[d]]

\* both sides of the rule are true in cs
Violates(cs, rule) ==
    /\ DeviceStateName(cs, rule.left.device) = rule.left.state
    /\ DeviceStateName(cs, rule.right.device) = rule.right.state

\* the rules analyze_rule was called for
CheckedRules == {outcomes[i].rule : i \in DOMAIN outcomes}

Done == pc = "done"

----------------------------------------------------------------------------
(* Properties *)

\* C1: when verify_safety_with_config returns Ok with level Complete after
\* checking at least one conflicts_with rule, no concrete state reachable from
\* the initial concrete state by any finite sequence of model edges has both
\* sides of a checked rule true.
C1_CompleteIsSound ==
    (Done /\ safety_result.ok /\ safety_result.level = "Complete" /\ checked_rules >= 1)
        => \A cs \in ReachableStates : \A i \in CheckedRules : ~Violates(cs, Rules[i])

\* a Complete verdict under a user limit, for two checked rules, on a model
\* whose devices change
C1_Witness ==
    /\ Done /\ safety_result.ok /\ safety_result.level = "Complete"
    /\ checked_rules >= 2
    /\ IsSome(config.bmc_max_depth)
    /\ Cardinality(ReachableStates) >= 4
    /\ \E cs \in ReachableStates : cs.device_states # InitialConcreteState.device_states

\* C2: when verify_safety_with_config returns Ok with explored_depth k, no
\* state violating a checked rule is reachable by at most k model edges; and
\* when such a state exists within the depth searched, the result is Err with
\* a diagnostic for that rule.
C2_BoundedIsSound ==
    Done =>
        /\ safety_result.ok =>
              \A i \in CheckedRules :
                  \A cs \in ReachableWithin(safety_result.explored_depth) :
                      ~Violates(cs, Rules[i])
        /\ \A i \in CheckedRules :
              (\E cs \in ReachableWithin(depth_plan.effective_depth) : Violates(cs, Rules[i]))
                  => /\ ~safety_result.ok
                     /\ \E d \in DOMAIN safety_result.diagnostics :
                            safety_result.diagnostics[d].rule = i

\* a Bounded verdict at depth k while a violating state lies deeper than k
C2_Witness ==
    /\ Done /\ safety_result.ok /\ safety_result.level = "Bounded"
    /\ \E i \in CheckedRules :
          /\ \E cs \in ReachableStates : Violates(cs, Rules[i])
          /\ \A cs \in ReachableWithin(safety_result.explored_depth) :
                 ~Violates(cs, Rules[i])

\* from_inputs has run
ModelBuilt == pc \in {"rules", "search", "done"}

\* the edges as transition_effects gives them, before the join merge
UnmergedEdges ==
    add_self_loops(transition_edges(sm.transitions, model.states,
                                    program.topology.devices, model.devices),
                   Len(model.states))

EffectPairs(effects) == {<<d, effects[d]>> : d \in DOMAIN effects}

\* the edges from a parallel branch state into join state `to`
BranchEdgesInto(to) ==
    {e \in DOMAIN model.edges :
        /\ model.edges[e].to = to
        /\ is_parallel_branch_state(model.states[model.edges[e].from])
        /\ is_parallel_join_state(model.states[to])}

\* the step the program starts in is `parallel: {extend cyl_A} {extend cyl_B}`
StartsWithExtendBoth == program.tasks[1].steps[1].statements = <<ExtendBoth>>

JoinOfFirstBlock ==
    program.tasks[1].name \o "." \o program.tasks[1].steps[1].name \o "__parallel_1_join"

\* the only conflicts_with rule is cyl_A.extended conflicts_with cyl_B.extended
OnlyConflictAB ==
    {Rules[i] : i \in {j \in DOMAIN Rules : Rules[j].relation = "conflicts_with"}}
        = {[left |-> [device |-> "cyl_A", state |-> "extended"],
            relation |-> "conflicts_with",
            right |-> [device |-> "cyl_B", state |-> "extended"]]}

C3_Scenario ==
    (Done /\ StartsWithExtendBoth /\ OnlyConflictAB /\ config.bmc_max_depth = None)
        => /\ ~safety_result.ok
           /\ Len(safety_result.diagnostics) = 1
           /\ LET path == safety_result.diagnostics[1].violation_path
              IN /\ path[Len(path)].line = "conflict"
                 /\ path[Len(path)].state = JoinOfFirstBlock
                 /\ path[Len(path) - 1].line = "edge"
                 /\ path[Len(path) - 1].to = JoinOfFirstBlock

\* the effects every branch edge into join state `to` had before the merge
EffectsEntering(unmerged, to) ==
    UNION {EffectPairs(unmerged[f].effects) : f \in BranchEdgesInto(to)}

C3_Union ==
    ModelBuilt =>
        LET unmerged == UnmergedEdges
        IN \A to \in DOMAIN model.states :
               \A e \in BranchEdgesInto(to) :
                   EffectPairs(model.edges[e].effects) = EffectsEntering(unmerged, to)

\* C3: for a step whose parallel block extends cyl_A in one branch and cyl_B
\* in the other, under cyl_A.extended conflicts_with cyl_B.extended,
\* verify_safety returns Err with exactly one diagnostic whose path ends at
\* the block's join state; and every edge of the safety model from a parallel
\* branch state into a join state carries the union of the effect maps of
\* all branch edges entering that join.
C3_ParallelJoinMerging == C3_Scenario /\ C3_Union

\* a join edge whose effect map lacks an effect of an entering branch edge
C3_EffectDropped ==
    /\ Done
    /\ LET unmerged == UnmergedEdges
       IN \E to \in DOMAIN model.states :
              \E e \in BranchEdgesInto(to) :
                  ~(EffectsEntering(unmerged, to)
                        \subseteq EffectPairs(model.edges[e].effects))

\* no two branch edges into `to` set one device to different states
BranchesAgree(unmerged, to) ==
    \A p, q \in EffectsEntering(unmerged, to) : p[1] = q[1] => p[2] = q[2]

\* the merge is the union wherever the entering branch edges agree
UnionWhereBranchesAgree ==
    ModelBuilt =>
        LET unmerged == UnmergedEdges
        IN \A to \in DOMAIN model.states :
               BranchesAgree(unmerged, to) =>
                   \A e \in BranchEdgesInto(to) :
                       EffectPairs(model.edges[e].effects) = EffectsEntering(unmerged, to)

\* the rules verify_safety_with_config analyzes: conflicts_with rules whose
\* two devices the topology declares
IsChecked(i) ==
    /\ program.constraints.safety[i].relation = "conflicts_with"
    /\ \A side \in {program.constraints.safety[i].left, program.constraints.safety[i].right} :
           \E d \in Range(program.topology.devices) : d.name = side.device

\* the target depth and whether bmc_max_depth truncates it
TargetDepth == Max(Max(Len(model.states), model.max_scc_depth), 1)

Truncates ==
    IsSome(config.bmc_max_depth) /\ Unwrap(config.bmc_max_depth) < TargetDepth

\* the checked rules with a violating state within the effective depth, in
\* rule order
FailingRules ==
    SelectSeq([i \in DOMAIN program.constraints.safety |-> i],
              LAMBDA i : /\ IsChecked(i)
                         /\ \E cs \in ReachableWithin(depth_plan.effective_depth) :
                                Violates(cs, program.constraints.safety[i]))

\* the search to the effective depth has seen every reachable state
EverySearchFullyExplored ==
    ReachableWithin(depth_plan.effective_depth) = ReachableStates

ErrPerFailingRule ==
    /\ ~safety_result.ok
    /\ safety_result.level = "" /\ safety_result.warnings = <<>>
    /\ Len(safety_result.diagnostics) = Len(FailingRules)
    /\ \A k \in DOMAIN FailingRules :
           /\ safety_result.diagnostics[k].rule = FailingRules[k]
           /\ safety_result.diagnostics[k].line
                  = program.constraints.safety[FailingRules[k]].line

BoundedWithWarning ==
    /\ safety_result.level = "Bounded"
    /\ safety_result.warnings # <<>>
    /\ safety_result.warnings[Len(safety_result.warnings)].warning = "bounded"

RECURSIVE RunAlong(_)
RunAlong(ids) ==
    IF ids = <<>> THEN <<InitialConcreteState>>
    ELSE LET before == RunAlong(SubSeq(ids, 1, Len(ids) - 1))
         IN Append(before, AfterEdge(before[Len(before)], model.edges[ids[Len(ids)]]))

StateText(control_state) ==
    model.states[control_state].task_name \o "." \o model.states[control_state].step_name

\* the path of the diagnostic is a run of the model that ends in a state
\* violating the diagnostic's rule, and no shorter run does
IsShortestRealRun(diagnostic) ==
    LET path == diagnostic.violation_path
        ids == diagnostic.edge_ids
        n == Len(ids)
        run == RunAlong(ids)
        rule == program.constraints.safety[diagnostic.rule]
    IN /\ Len(path) = n + 2
       /\ path[1] = [line |-> "initial", state |-> StateText(run[1].control_state)]
       /\ model.states[run[1].control_state] = sm.initial
       /\ \A k \in 1..n :
              /\ ids[k] \in DOMAIN model.edges
              /\ model.edges[ids[k]].from = run[k].control_state
              /\ path[k + 1] = [line |-> "edge",
                                from |-> StateText(run[k].control_state),
                                label |-> model.edges[ids[k]].label,
                                to |-> StateText(run[k + 1].control_state)]
       /\ Violates(run[n + 1], rule)
       /\ path[n + 2] = [line |-> "conflict",
                         state |-> StateText(run[n + 1].control_state),
                         left |-> rule.left.device \o "." \o rule.left.state,
                         right |-> rule.right.device \o "." \o rule.right.state]
       /\ n > 0 => \A cs \in ReachableWithin(n - 1) : ~Violates(cs, rule)

\* C5: every violation path of a safety diagnostic starts at the initial
\* control state with all devices at their defaults, each rendered edge is a
\* model edge leaving the state the previous edge reached, the effect maps
\* applied in order give a device vector with both sides of the rule true at
\* the final control state, and no shorter run reaches a violating state.
C5_PathIsShortestRun ==
    Done => \A d \in DOMAIN safety_result.diagnostics :
                IsShortestRealRun(safety_result.diagnostics[d])

\* a diagnostic whose path has four edges and one of whose edges has a
\* sibling leaving the same state
C5_Witness ==
    /\ Done
    /\ \E d \in DOMAIN safety_result.diagnostics :
          LET ids == safety_result.diagnostics[d].edge_ids
          IN /\ Len(ids) >= 4
             /\ \E k \in DOMAIN ids :
                    Cardinality(EdgesLeaving(model.edges[ids[k]].from)) >= 2

DepthPlanned == pc \in {"rules", "search", "done"}

\* the depth the claim expects for limit L and target depth T
OverrideWhenSmaller(L, T) == IF L < T THEN L ELSE T

\* C6: for every bmc_max_depth L and target depth T, the depth searched and
\* the explored_depth of the report are L when L < T and T when L >= T.
C6_LimitOverridesOnlyWhenSmaller ==
    DepthPlanned /\ IsSome(config.bmc_max_depth) =>
        LET expected == OverrideWhenSmaller(Unwrap(config.bmc_max_depth),
                                            model.suggested_depth)
        IN /\ depth_plan.effective_depth = expected
           /\ Done /\ safety_result.ok => safety_result.explored_depth = expected

\* a report whose explored_depth is a limit above the target depth
C6_LimitAboveTarget ==
    /\ Done
    /\ safety_result.ok
    /\ IsSome(config.bmc_max_depth)
    /\ Unwrap(config.bmc_max_depth) > model.suggested_depth
    /\ safety_result.explored_depth = Unwrap(config.bmc_max_depth)

\* what the code does with a limit: it is the depth, raised to 1 when it is 0
LimitIsTheDepth ==
    DepthPlanned /\ IsSome(config.bmc_max_depth) =>
        /\ depth_plan.effective_depth = Max(Unwrap(config.bmc_max_depth), 1)
        /\ Done /\ safety_result.ok =>
               safety_result.explored_depth = Max(Unwrap(config.bmc_max_depth), 1)

----------------------------------------------------------------------------
(* Properties of the state-machine builder *)

Built == pc \in {"built", "verified"}

StepsOfProgram ==
    UNION {{<<i, j>> : j \in DOMAIN program.tasks[i].steps} : i \in DOMAIN program.tasks}

\* C7: when build_state_machine returns Ok, the state list has no duplicate
\* (task, step) pair, the initial state is the first step of the first task
\* and is in the list, and both ends of every transition are in the list.
C7_StateMachineClosed ==
    Built =>
        /\ \A i, j \in DOMAIN sm.states : sm.states[i] = sm.states[j] => i = j
        /\ program.tasks # <<>> /\ program.tasks[1].steps # <<>>
        /\ sm.initial = State(program.tasks[1].name, program.tasks[1].steps[1].name)
        /\ sm.initial \in Range(sm.states)
        /\ \A t \in DOMAIN sm.transitions :
               /\ sm.transitions[t].from \in Range(sm.states)
               /\ sm.transitions[t].to \in Range(sm.states)

\* a machine built from a task with two steps of one name, with a join state
\* and a timeout edge out of a branch state
C7_Witness ==
    /\ Built
    /\ \E i \in DOMAIN program.tasks :
           /\ Len(program.tasks[i].steps) = 2
           /\ program.tasks[i].steps[1].name = program.tasks[i].steps[2].name
    /\ \E n \in DOMAIN sm.states : EndsWith(sm.states[n].step_name, "_join")
    /\ \E t \in DOMAIN sm.transitions :
           /\ sm.transitions[t].guard.kind = "timeout"
           /\ Contains(sm.transitions[t].from.step_name, "_branch_")

\* the first step of the task named `name`
InitialStateOf(name) ==
    LET i == CHOOSE k \in DOMAIN program.tasks : program.tasks[k].name = name
    IN State(name, program.tasks[i].steps[1].name)

\* the completion target of step j of task i: the next step, or the target
\* of the task's on_complete: goto, or none
CompletionTargetOf(i, j) ==
    LET task == program.tasks[i]
    IN IF j < Len(task.steps) THEN Some(State(task.name, task.steps[j + 1].name))
       ELSE IF IsSome(task.on_complete) /\ Unwrap(task.on_complete).on_complete = "goto"
       THEN Some(InitialStateOf(Unwrap(task.on_complete).step))
       ELSE None

\* the join states synthesized for the parallel blocks of `statements`, at
\* any depth, each with the completion target of what encloses its block
RECURSIVE JoinsIn(_, _, _, _)
JoinsIn(task_name, prefix, statements, completion_target) ==
    LET parallels == OfKind(statements, "parallel")
        races == OfKind(statements, "race")
        block(kind, k) == prefix \o "__" \o kind \o "_" \o ToString(k)
        branch(kind, k, b) == block(kind, k) \o "_branch_" \o ToString(b)
        join(k) == State(task_name, block("parallel", k) \o "_join")
        after(race_branch) ==
            IF IsSome(race_branch.then_goto)
            THEN Some(InitialStateOf(Unwrap(race_branch.then_goto).step))
            ELSE completion_target
    IN UNION ({{[join |-> join(k), target |-> completion_target]} : k \in DOMAIN parallels}
              \cup {JoinsIn(task_name, branch("parallel", kb[1], kb[2]),
                            parallels[kb[1]].branches[kb[2]].statements,
                            Some(join(kb[1]))) :
                       kb \in UNION {{<<k, b>> : b \in DOMAIN parallels[k].branches} :
                                        k \in DOMAIN parallels}}
              \cup {JoinsIn(task_name, branch("race", kb[1], kb[2]),
                            races[kb[1]].branches[kb[2]].statements,
                            after(races[kb[1]].branches[kb[2]])) :
                       kb \in UNION {{<<k, b>> : b \in DOMAIN races[k].branches} :
                                        k \in DOMAIN races}})

JoinsOfProgram ==
    UNION {JoinsIn(program.tasks[ij[1]].name,
                   program.tasks[ij[1]].steps[ij[2]].name,
                   program.tasks[ij[1]].steps[ij[2]].statements,
                   CompletionTargetOf(ij[1], ij[2])) : ij \in StepsOfProgram}

TransitionsFrom(state) ==
    {t \in DOMAIN sm.transitions : sm.transitions[t].from = state}

\* the join has no transition when there is no completion target, and else
\* the one always edge to it, with no action and no timer
JoinLeadsTo(join, target) ==
    IF IsSome(target)
    THEN /\ Cardinality(TransitionsFrom(join)) = 1
         /\ \A t \in TransitionsFrom(join) :
                sm.transitions[t] = Transition(join, Unwrap(target), GuardAlways, <<>>, <<>>)
    ELSE TransitionsFrom(join) = {}

\* C8: every synthesized join state has at most one outgoing transition;
\* when present it is guarded always, goes to the completion target of the
\* enclosing step or branch and has no actions and no timers; the join has
\* no outgoing transition exactly when that completion target does not exist.
C8_JoinHasOneAlwaysEdge ==
    Built => \A j \in JoinsOfProgram : JoinLeadsTo(j.join, j.target)

StepNamesDistinct ==
    \A i \in DOMAIN program.tasks :
        \A j, k \in DOMAIN program.tasks[i].steps :
            program.tasks[i].steps[j].name = program.tasks[i].steps[k].name => j = k

\* the same, for the programs whose steps have different names in each task
JoinsWhereStepNamesDistinct ==
    Built /\ StepNamesDistinct => \A j \in JoinsOfProgram : JoinLeadsTo(j.join, j.target)

\* a built machine with a join state that has two outgoing transitions
C8_JoinWithTwoEdges ==
    /\ Built
    /\ \E j \in JoinsOfProgram : Cardinality(TransitionsFrom(j.join)) = 2

----------------------------------------------------------------------------
(* Properties of the liveness checks *)

Verified == pc = "verified"

\* the statements of a statement tree, those of the branches of its parallel
\* and race blocks included
RECURSIVE StatementTree(_)
StatementTree(statements) ==
    Concat([i \in DOMAIN statements |->
        <<statements[i]>> \o
        (IF statements[i].statement \in {"parallel", "race"}
         THEN Concat([b \in DOMAIN statements[i].branches |->
                         StatementTree(statements[i].branches[b].statements)])
         ELSE <<>>)])

WaitsWithoutEscape(statements) ==
    LET tree == StatementTree(statements)
    IN IF \E n \in DOMAIN tree :
              \/ tree[n].statement = "timeout"
              \/ tree[n] = AllowIndefiniteWait(TRUE)
       THEN <<>>
       ELSE OfKind(tree, "wait")

WaitDiagnosticsAt(task, step) ==
    SelectSeq(liveness_result.diagnostics,
              LAMBDA d : /\ d.check = "wait"
                         /\ d.line = step.line
                         /\ d.task_name = task.name
                         /\ d.step_name = step.name)

\* C9: for each step, one diagnostic per wait expression of the step's
\* statement tree (branches of parallel and race blocks included) is emitted
\* if and only if the tree holds a wait and neither a timeout nor
\* allow_indefinite_wait: true; otherwise none is emitted for the step.
C9_WaitWithoutEscape ==
    Verified =>
        /\ \A ij \in StepsOfProgram :
               LET task == program.tasks[ij[1]]
                   step == task.steps[ij[2]]
                   waits == WaitsWithoutEscape(step.statements)
               IN WaitDiagnosticsAt(task, step)
                      = [k \in DOMAIN waits |->
                            LivenessDiagnostic("wait", step.line, task.name, step.name,
                                               wait_to_guard_expression(waits[k]), {})]
        /\ \A d \in Range(liveness_result.diagnostics) :
               d.check = "wait" =>
                   \E ij \in StepsOfProgram :
                       d.line = program.tasks[ij[1]].steps[ij[2]].line

\* one step with a single wait and one diagnostic, another whose two waits
\* are in the branches of a parallel block, with two
C9_Witness ==
    /\ Verified
    /\ \E ij \in StepsOfProgram :
           LET task == program.tasks[ij[1]]
               step == task.steps[ij[2]]
           IN /\ step.statements = <<SensorWait("sensor_A")>>
              /\ Len(WaitDiagnosticsAt(task, step)) = 1
    /\ \E ij \in StepsOfProgram :
           LET task == program.tasks[ij[1]]
               step == task.steps[ij[2]]
           IN /\ OfKind(step.statements, "wait") = <<>>
              /\ Len(WaitDiagnosticsAt(task, step)) = 2

\* the pairs (a, b) of states with a path of at least one transition from a
\* to b
RECURSIVE PathsFrom(_, _)
PathsFrom(paths, steps) ==
    LET longer == paths \cup {<<p[1], q[2]>> : <<p, q>> \in {pq \in paths \X steps :
                                                              pq[1][2] = pq[2][1]}}
    IN IF longer = paths THEN paths ELSE PathsFrom(longer, steps)

Paths ==
    LET steps == {<<sm.transitions[t].from, sm.transitions[t].to>> :
                     t \in DOMAIN sm.transitions}
    IN PathsFrom(steps, steps)

\* the strongly connected components that contain a cycle: for each state
\* on a cycle, the states it reaches that reach it
CyclicComponents ==
    LET paths == Paths
    IN {{b \in Range(sm.states) : <<a, b>> \in paths /\ <<b, a>> \in paths} :
           a \in {c \in Range(sm.states) : <<c, c>> \in paths}}

\* the state is a declared step that lists allow_indefinite_wait: true
CarriesAllow(state) ==
    \E ij \in StepsOfProgram :
        /\ program.tasks[ij[1]].name = state.task_name
        /\ program.tasks[ij[1]].steps[ij[2]].name = state.step_name
        /\ AllowIndefiniteWait(TRUE) \in Range(program.tasks[ij[1]].steps[ij[2]].statements)

HasEscape(component) ==
    \E t \in DOMAIN sm.transitions :
        /\ sm.transitions[t].from \in component
        /\ \/ sm.transitions[t].guard.kind = "timeout"
           \/ CarriesAllow(sm.transitions[t].from)

MemberNames(component) == {c.task_name \o "." \o c.step_name : c \in component}

SccDiagnosticsNaming(component) ==
    {d \in DOMAIN liveness_result.diagnostics :
        /\ liveness_result.diagnostics[d].check = "scc"
        /\ liveness_result.diagnostics[d].members = MemberNames(component)}

\* C10: for each strongly connected component with a cycle, exactly one
\* diagnostic naming its members is emitted when no transition leaving one
\* of its states is guarded by a timeout or leaves a state whose step
\* carries allow_indefinite_wait: true, and none is emitted otherwise; no
\* other diagnostic of this kind is emitted.
C10_SccWithoutEscape ==
    Verified =>
        /\ \A component \in CyclicComponents :
               Cardinality(SccDiagnosticsNaming(component))
                   = IF HasEscape(component) THEN 0 ELSE 1
        /\ \A d \in Range(liveness_result.diagnostics) :
               d.check = "scc" =>
                   \E component \in CyclicComponents : d.members = MemberNames(component)

\* two tasks of one action step each, linked into a cycle by on_complete:
\* goto, and the one diagnostic naming both states
C10_Witness ==
    /\ Verified
    /\ Len(program.tasks) = 2
    /\ \A i \in DOMAIN program.tasks :
           /\ Len(program.tasks[i].steps) = 1
           /\ program.tasks[i].steps[1].statements = <<Log("start")>>
    /\ program.tasks[1].on_complete = Some(OnCompleteGoto("t2"))
    /\ program.tasks[2].on_complete = Some(OnCompleteGoto("t1"))
    /\ Len(liveness_result.diagnostics) = 1
    /\ liveness_result.diagnostics[1].check = "scc"
    /\ liveness_result.diagnostics[1].members = {"t1.s1", "t2.s1"}

----------------------------------------------------------------------------
(* Properties of the checks of completion *)

\* the ends of the paths through a statement tree: a goto, a timeout, a
\* wait, or the completion of a statement list without control flow, each
\* with whether a race branch that declares then: goto encloses it
RECURSIVE PathEnds(_, _)
PathEnds(statements, in_then_goto) ==
    LET ends_of(s) ==
            CASE s.statement \in {"goto", "timeout", "wait"} ->
                     {[end |-> s.statement, in_then_goto |-> in_then_goto]}
              [] s.statement = "parallel" ->
                     UNION {PathEnds(b.statements, in_then_goto) :
                               b \in Range(s.branches)}
              [] s.statement = "race" ->
                     UNION {PathEnds(b.statements, in_then_goto \/ IsSome(b.then_goto)) :
                               b \in Range(s.branches)}
              [] OTHER -> {}
        ends == UNION {ends_of(statements[i]) : i \in DOMAIN statements}
    IN IF \E i \in DOMAIN statements :
              statements[i].statement \in {"goto", "timeout", "wait", "parallel", "race"}
       THEN ends
       ELSE {[end |-> "completion", in_then_goto |-> in_then_goto]}

JumpsAway(path_end) == path_end.end \in {"goto", "timeout"} \/ path_end.in_then_goto

HasNonJumpPath(statements) == \E e \in PathEnds(statements, FALSE) : ~JumpsAway(e)

DeclaredUnreachable ==
    {i \in DOMAIN program.tasks :
        program.tasks[i].on_complete = Some(OnCompleteUnreachable)}

LastStep(task) == task.steps[Len(task.steps)]

UnreachableDiagnosticsOf(task) ==
    {d \in DOMAIN liveness_result.diagnostics :
        /\ liveness_result.diagnostics[d].check = "unreachable"
        /\ liveness_result.diagnostics[d].task_name = task.name}

\* C11: for each task declared on_complete: unreachable, one diagnostic is
\* emitted if and only if some path of the last step's statement tree does
\* not jump away (a goto or a timeout jumps, a wait or the end of a
\* statement list jumps only inside a race branch that declares then: goto);
\* when every path jumps there is none, and there is none for a task that is
\* not declared unreachable.
C11_UnreachableOnComplete ==
    Verified =>
        \A i \in DOMAIN program.tasks :
            Cardinality(UnreachableDiagnosticsOf(program.tasks[i]))
                = IF /\ i \in DeclaredUnreachable
                     /\ HasNonJumpPath(LastStep(program.tasks[i]).statements)
                  THEN 1 ELSE 0

\* two tasks declared unreachable: the last step of one is a race whose
\* branches all declare then: goto, with a timeout, and it has no
\* diagnostic; the last step of the other has a race branch that falls
\* through, and it has one
C11_Witness ==
    /\ Verified
    /\ \E i, j \in DeclaredUnreachable :
           /\ LastStep(program.tasks[i]).statements = <<RaceAllJump, TimeoutTo(100, "t1")>>
           /\ UnreachableDiagnosticsOf(program.tasks[i]) = {}
           /\ LastStep(program.tasks[j]).statements = <<RaceOneFallsThrough>>
           /\ UnreachableDiagnosticsOf(program.tasks[j]) # {}

\* the states without an outgoing transition
WithoutOutgoing ==
    {s \in Range(sm.states) :
        \A t \in DOMAIN sm.transitions : sm.transitions[t].from # s}

\* the state of the last step of a task that declares no on_complete
IsTerminalOfTaskWithoutOnComplete(state) ==
    \E i \in DOMAIN program.tasks :
        /\ program.tasks[i].name = state.task_name
        /\ program.tasks[i].on_complete = None
        /\ LastStep(program.tasks[i]).name = state.step_name

DanglingDiagnosticsOf(state) ==
    {d \in DOMAIN liveness_result.diagnostics :
        /\ liveness_result.diagnostics[d].check = "zero_out_degree"
        /\ liveness_result.diagnostics[d].task_name = state.task_name
        /\ liveness_result.diagnostics[d].step_name = state.step_name}

\* C12: a dangling-terminal diagnostic is emitted for a control state if and
\* only if the state has no outgoing transition and is not the terminal of a
\* task without on_complete; there is exactly one diagnostic for such a
\* state, and none that names no state.
C12_DanglingTerminal ==
    Verified =>
        /\ \A state \in Range(sm.states) :
               Cardinality(DanglingDiagnosticsOf(state))
                   = IF /\ state \in WithoutOutgoing
                        /\ ~IsTerminalOfTaskWithoutOnComplete(state)
                     THEN 1 ELSE 0
        /\ \A d \in Range(liveness_result.diagnostics) :
               d.check = "zero_out_degree" =>
                   State(d.task_name, d.step_name) \in Range(sm.states)

\* a last step of actions in a task declared unreachable, with its
\* diagnostic; in the other task, which declares no on_complete, the last
\* step without a diagnostic and the join of its parallel block with one
C12_Witness ==
    /\ Verified
    /\ \E i \in DeclaredUnreachable :
           LET state == State(program.tasks[i].name, LastStep(program.tasks[i]).name)
           IN /\ LastStep(program.tasks[i]).statements = <<Log("start")>>
              /\ state \in WithoutOutgoing
              /\ DanglingDiagnosticsOf(state) # {}
    /\ \E i \in DOMAIN program.tasks :
           LET state == State(program.tasks[i].name, LastStep(program.tasks[i]).name)
               join == State(state.task_name, state.step_name \o "__parallel_1_join")
           IN /\ program.tasks[i].on_complete = None
              /\ DanglingDiagnosticsOf(state) = {}
              /\ join \in WithoutOutgoing
              /\ DanglingDiagnosticsOf(join) # {}

----------------------------------------------------------------------------
(* Properties of the topology builder *)

TopologyBuilt == topology_result.built

Devices == program.topology.devices

\* no two declarations of the section share a name
DeviceNamesDistinct ==
    \A i, j \in DOMAIN Devices : Devices[i].name = Devices[j].name => i = j

\* the legal pairs: upstream kind, downstream kind, kind of the connection
CompatibilityTable ==
    {<<"digital_output", "solenoid_valve", "electrical">>,
     <<"digital_output", "motor", "electrical">>,
     <<"digital_input", "sensor", "electrical">>,
     <<"solenoid_valve", "cylinder", "pneumatic">>,
     <<"digital_input", "digital_input", "logical">>,
     <<"digital_output", "digital_output", "logical">>}

Connected == {i \in DOMAIN Devices : IsSome(Devices[i].attributes.connected_to)}

\* the declarations a connected_to names
UpstreamOf(i) ==
    {u \in DOMAIN Devices : Devices[u].name = Unwrap(Devices[i].attributes.connected_to)}

\* the kinds the table gives for a connection of the device to an upstream
\* declaration
TableKinds(u, i) ==
    {row[3] : row \in {r \in CompatibilityTable :
                          r[1] = Devices[u].device_type /\ r[2] = Devices[i].device_type}}

ConnectionIsValid(i) == \E u \in UpstreamOf(i) : TableKinds(u, i) # {}

\* C17: when every connected_to is valid (and the names of the section are
\* distinct), the graph has one node per device, in declaration order, and
\* one edge per device with a connected_to: from the node of the connected_to
\* target to the node of the declaring device, of the kind the compatibility
\* table gives for the two kinds.
C17_TopologyRoundTrip ==
    (TopologyBuilt /\ DeviceNamesDistinct /\ \A i \in Connected : ConnectionIsValid(i)) =>
        /\ topology_result.ok
        /\ LET graph == Unwrap(topology_result.value)
           IN /\ graph.devices = [i \in DOMAIN Devices |->
                                     [name |-> Devices[i].name,
                                      kind |-> Devices[i].device_type]]
              /\ Len(graph.edges) = Cardinality(Connected)
              /\ \A i \in Connected :
                     \E e \in DOMAIN graph.edges :
                         /\ graph.edges[e].to = i
                         /\ graph.edges[e].from \in UpstreamOf(i)
                         /\ graph.edges[e].kind \in TableKinds(graph.edges[e].from, i)

\* a motor declared before the digital output it is connected to, which is
\* connected to itself: two edges, one electrical and one logical
C17_Witness ==
    /\ TopologyBuilt
    /\ DeviceNamesDistinct
    /\ Len(Devices) = 2
    /\ Devices[1].device_type = "motor"
    /\ Devices[1].attributes.connected_to = Some(Devices[2].name)
    /\ Devices[2].attributes.connected_to = Some(Devices[2].name)
    /\ topology_result.ok
    /\ Unwrap(topology_result.value).edges
           = <<[from |-> 2, to |-> 1, kind |-> "electrical"],
               [from |-> 2, to |-> 2, kind |-> "logical"]>>

\* the devices whose connected_to is not valid, in declaration order
Offending ==
    SelectSeq([i \in DOMAIN Devices |-> i],
              LAMBDA i : i \in Connected /\ ~ConnectionIsValid(i))

\* C18: (the names of the section being distinct) the builder returns Err,
\* and no graph, exactly when some connected_to names an undeclared device
\* or forms a pair of kinds outside the compatibility table; the errors are
\* one per offending device, in declaration order, undefined_reference or
\* type_mismatch with the line of the declaring device; a target declared
\* later in the section is accepted like one declared earlier.
C18_TopologyErrors ==
    (TopologyBuilt /\ DeviceNamesDistinct) =>
        /\ topology_result.ok <=> Offending = <<>>
        /\ topology_result.ok <=> IsSome(topology_result.value)
        /\ DOMAIN topology_result.errors = DOMAIN Offending
        /\ \A k \in DOMAIN Offending :
               /\ topology_result.errors[k].line = Devices[Offending[k]].line
               /\ topology_result.errors[k].kind
                      = IF UpstreamOf(Offending[k]) = {} THEN "undefined_reference"
                        ELSE "type_mismatch"

\* two offending devices: the first names an undeclared device, the second
\* a cylinder connected to a cylinder; both are reported
C18_Witness ==
    /\ TopologyBuilt
    /\ DeviceNamesDistinct
    /\ Len(Offending) = 2
    /\ UpstreamOf(1) = {}
    /\ UpstreamOf(2) = {1}
    /\ ~topology_result.ok
    /\ Len(topology_result.errors) = 2
    /\ topology_result.errors[1].kind = "undefined_reference"
    /\ topology_result.errors[2].kind = "type_mismatch"

\* C19: when two declarations of the section share a name, the builder
\* returns Err with a duplicate_definition diagnostic, and no graph.
C19_DuplicateDeviceNames ==
    (TopologyBuilt /\ ~DeviceNamesDistinct) =>
        /\ ~topology_result.ok
        /\ topology_result.value = None
        /\ \E k \in DOMAIN topology_result.errors :
               topology_result.errors[k].kind = "duplicate_definition"

\* two declarations of one name and no connected_to: the builder returns a
\* graph of two nodes of that name
C19_DuplicateAccepted ==
    /\ TopologyBuilt
    /\ Len(Devices) = 2
    /\ Devices[1].name = Devices[2].name
    /\ Connected = {}
    /\ topology_result.ok
    /\ Len(Unwrap(topology_result.value).devices) = 2

\* with two declarations of one name, no error of the builder is ever a
\* duplicate_definition
NoDuplicateDefinitionReported ==
    TopologyBuilt =>
        \A k \in DOMAIN topology_result.errors :
            topology_result.errors[k].kind # "duplicate_definition"

----------------------------------------------------------------------------
(* Properties of the constraint-set builder *)

ConstraintsBuilt == constraints_result.built

DeclaredDevices == {Devices[i].name : i \in DOMAIN Devices}

\* the states a reference to the device may name: extended and retracted
\* for a cylinder, on and off for every other kind, and every state a
\* detects attribute names for the device
Vocabulary(device) ==
    UNION {IF Devices[i].device_type = "cylinder" THEN {"extended", "retracted"}
           ELSE {"on", "off"} :
              i \in {j \in DOMAIN Devices : Devices[j].name = device}}
    \cup {Unwrap(Devices[i].attributes.detects).state :
             i \in {j \in DOMAIN Devices :
                       /\ IsSome(Devices[j].attributes.detects)
                       /\ Unwrap(Devices[j].attributes.detects).device = device}}

ValidStateReference(reference) ==
    reference.device \in DeclaredDevices /\ reference.state \in Vocabulary(reference.device)

ValidTimingScope(target) ==
    \E i \in DOMAIN program.tasks :
        /\ program.tasks[i].name = target.task
        /\ target.scope = "step" =>
               \E j \in DOMAIN program.tasks[i].steps :
                   program.tasks[i].steps[j].name = target.step

\* the number of invalid references of the constraint on a line
InvalidReferencesOn(line) ==
    LET safety == {i \in DOMAIN program.constraints.safety :
                      program.constraints.safety[i].line = line}
        timing == {i \in DOMAIN program.constraints.timing :
                      program.constraints.timing[i].line = line}
        causality == {i \in DOMAIN program.constraints.causality :
                         program.constraints.causality[i].line = line}
    IN Cardinality({i \in safety : ~ValidStateReference(program.constraints.safety[i].left)})
       + Cardinality({i \in safety :
                         ~ValidStateReference(program.constraints.safety[i].right)})
       + Cardinality({i \in timing : ~ValidTimingScope(program.constraints.timing[i].target)})
       + Cardinality({ik \in UNION {{<<i, k>> :
                                        k \in DOMAIN program.constraints.causality[i].chain} :
                                    i \in causality} :
                         program.constraints.causality[ik[1]].chain[ik[2]].device
                             \notin DeclaredDevices})

ConstraintLines ==
    {program.constraints.safety[i].line : i \in DOMAIN program.constraints.safety}
    \cup {program.constraints.timing[i].line : i \in DOMAIN program.constraints.timing}
    \cup {program.constraints.causality[i].line : i \in DOMAIN program.constraints.causality}

ErrorsOn(line) ==
    {k \in DOMAIN constraints_result.errors : constraints_result.errors[k].line = line}

\* C20: build_constraint_set returns Ok exactly when every state reference
\* of every safety rule names a declared device and a state of its
\* vocabulary, every timing scope names an existing task (and, for a step
\* scope, a step of it) and every device of every causality chain is
\* declared; otherwise it returns Err with one diagnostic per invalid
\* reference, on the line of its rule, whatever the rules before it.
C20_ConstraintReferences ==
    ConstraintsBuilt =>
        /\ constraints_result.ok <=> \A line \in ConstraintLines : InvalidReferencesOn(line) = 0
        /\ constraints_result.ok <=> IsSome(constraints_result.value)
        /\ \A line \in ConstraintLines :
               Cardinality(ErrorsOn(line)) = InvalidReferencesOn(line)
        /\ \A k \in DOMAIN constraints_result.errors :
               constraints_result.errors[k].line \in ConstraintLines

\* a first safety rule with an undeclared device, a second with two states
\* outside the vocabularies, a timing rule on a step its task does not have
\* and a chain with two undeclared devices: six diagnostics
C20_Witness ==
    /\ ConstraintsBuilt
    /\ ~constraints_result.ok
    /\ Len(program.constraints.safety) = 2
    /\ Cardinality(ErrorsOn(11)) = 1
    /\ Cardinality(ErrorsOn(12)) = 2
    /\ Cardinality(ErrorsOn(21)) = 1
    /\ Cardinality(ErrorsOn(31)) = 2
    /\ Len(constraints_result.errors) = 6

----------------------------------------------------------------------------
(* Properties of the timing verifier *)

TimingVerified == timing_result.verified

\* the duration of an action on the devices of TimingTopology: its own time
\* and the largest chain of response times upstream of the device
ExpectedDuration(action) ==
    CASE action = Extend("cyl_A") -> {200 + 30 + 20}
      [] action = Retract("cyl_A") -> {300 + 30 + 20}
      [] action = Set("motor_A", "on") -> {50 + 20}
      [] OTHER -> {}

Milliseconds(duration) ==
    IF duration.unit = "s" THEN 1000 * duration.value ELSE duration.value

StepWorstCase(step) ==
    LET tree == StatementTree(step.statements)
    IN SetMax({0}
           \cup UNION {ExpectedDuration(tree[n]) : n \in DOMAIN tree}
           \cup {Milliseconds(tree[n].duration) :
                    n \in {k \in DOMAIN tree : tree[k].statement = "timeout"}})

RECURSIVE SumOfWorstCases(_)
SumOfWorstCases(steps) ==
    IF steps = <<>> THEN 0 ELSE StepWorstCase(Head(steps)) + SumOfWorstCases(Tail(steps))

\* the worst cases a scope may stand for: that of the task of the name, or
\* those of the steps of the name in the task
ScopeWorstCases(target) ==
    LET tasks == {i \in DOMAIN program.tasks : program.tasks[i].name = target.task}
    IN IF target.scope = "task"
       THEN {SumOfWorstCases(program.tasks[i].steps) : i \in tasks}
       ELSE UNION {{StepWorstCase(program.tasks[i].steps[j]) :
                       j \in {k \in DOMAIN program.tasks[i].steps :
                                 program.tasks[i].steps[k].name = target.step}} :
                   i \in tasks}

TimingRulesOf(relation) ==
    {i \in DOMAIN program.constraints.timing :
        program.constraints.timing[i].relation = relation}

TimingDiagnosticsOn(line) ==
    {d \in DOMAIN timing_result.diagnostics : timing_result.diagnostics[d].line = line}

\* C13: the worst case of a step is the larger of the largest duration of
\* an action of its statement tree and the largest timeout of the tree, the
\* worst case of a task is the sum of those of its steps, and a
\* must_complete_within D rule has exactly one diagnostic if the worst case
\* of its scope is greater than D, and none otherwise.
C13_MustCompleteWithin ==
    TimingVerified =>
        \A i \in TimingRulesOf("must_complete_within") :
            LET rule == program.constraints.timing[i]
            IN \E worst \in ScopeWorstCases(rule.target) :
                   Cardinality(TimingDiagnosticsOn(rule.line))
                       = IF worst > Milliseconds(rule.duration) THEN 1 ELSE 0

\* a task of two steps of one name, the first with a timeout of 300ms in a
\* branch and the second with an action of 250ms: the sum is 550ms, and the rule of
\* 500ms on the task has no diagnostic
C13_TaskSumOfLastStep ==
    /\ TimingVerified
    /\ Len(program.tasks[1].steps) = 2
    /\ program.tasks[1].steps[1].name = program.tasks[1].steps[2].name
    /\ StepWorstCase(program.tasks[1].steps[1]) = 300
    /\ StepWorstCase(program.tasks[1].steps[2]) = 250
    /\ program.constraints.timing[1].target = TimingTarget("task", "t1", "")
    /\ program.constraints.timing[1].duration = DurationValue(500, "ms")
    /\ TimingDiagnosticsOn(21) = {}

\* the same where the names of the steps of each task are distinct
MustCompleteWithinWhereStepNamesDistinct ==
    StepNamesDistinct => C13_MustCompleteWithin

\* the state the scope of a must_start_after rule starts in
FirstStateOf(target) ==
    IF target.scope = "step" THEN {State(target.task, target.step)}
    ELSE {State(target.task, program.tasks[i].steps[1].name) :
             i \in {j \in DOMAIN program.tasks : program.tasks[j].name = target.task}}

\* the delays of the transitions into the state: d for a timeout(d) guard, 0
\* for the others
DelaysInto(state) ==
    {IF sm.transitions[t].guard.kind = "timeout"
     THEN sm.transitions[t].guard.duration_ms ELSE 0 :
        t \in {n \in DOMAIN sm.transitions : sm.transitions[n].to = state}}

ShortestDelay(state) ==
    IF DelaysInto(state) = {} THEN 0
    ELSE CHOOSE m \in DelaysInto(state) : \A d \in DelaysInto(state) : m <= d

\* C14: for a must_start_after D rule, with m the smallest delay of the
\* transitions into the first-step state of the scope (0 when there is
\* none), exactly one diagnostic is emitted if m < D and none otherwise.
C14_MustStartAfter ==
    TimingVerified =>
        \A i \in TimingRulesOf("must_start_after") :
            LET rule == program.constraints.timing[i]
            IN \A state \in FirstStateOf(rule.target) :
                   Cardinality(TimingDiagnosticsOn(rule.line))
                       = IF ShortestDelay(state) < Milliseconds(rule.duration)
                         THEN 1 ELSE 0

\* a task whose only predecessor is a timeout of 100ms, and a rule of 200ms
\* on it: one diagnostic, which reports 100ms
C14_Witness ==
    /\ TimingVerified
    /\ program.constraints.timing[2].target = TimingTarget("task", "t2", "")
    /\ program.constraints.timing[2].duration = DurationValue(200, "ms")
    /\ DelaysInto(State("t2", "s1")) = {100}
    /\ Cardinality({t \in DOMAIN sm.transitions : sm.transitions[t].to = State("t2", "s1")}) = 1
    /\ \E d \in TimingDiagnosticsOn(22) :
           /\ TimingDiagnosticsOn(22) = {d}
           /\ timing_result.diagnostics[d].observed_ms = 100
           /\ timing_result.diagnostics[d].duration_ms = 200

----------------------------------------------------------------------------
(* Properties of the causality verifier *)

CausalityVerified == causality_result.verified

\* the runtime graph read off the declarations: an edge from the device a
\* connected_to names to the declaring device, and from the device a detects
\* names to the declaring device
RuntimeEdge(a, b) ==
    \E i \in DOMAIN Devices :
        /\ Devices[i].name = b
        /\ \/ Devices[i].attributes.connected_to = Some(a)
           \/ /\ IsSome(Devices[i].attributes.detects)
              /\ Unwrap(Devices[i].attributes.detects).device = a

\* the paths without a repeated device of k edges from a
RECURSIVE PathsOfLength(_, _)
PathsOfLength(a, k) ==
    IF k = 0 THEN {<<a>>}
    ELSE UNION {{Append(path, b) :
                    b \in {n \in DeclaredDevices :
                              /\ RuntimeEdge(path[Len(path)], n)
                              /\ \A j \in DOMAIN path : path[j] # n}} :
                path \in PathsOfLength(a, k - 1)}

PathsBetween(a, b, k) == {path \in PathsOfLength(a, k) : path[Len(path)] = b}

HasPath(a, b) == \E k \in 0..Len(Devices) : PathsBetween(a, b, k) # {}

ShortestPaths(a, b) ==
    LET k == CHOOSE n \in 0..Len(Devices) :
                 /\ PathsBetween(a, b, n) # {}
                 /\ \A m \in 0..(n - 1) : PathsBetween(a, b, m) = {}
    IN PathsBetween(a, b, k)

DeclaredChain(i) ==
    [k \in DOMAIN program.constraints.causality[i].chain |->
        program.constraints.causality[i].chain[k].device]

BrokenPairs(chain) == {k \in 1..(Len(chain) - 1) : ~HasPath(chain[k], chain[k + 1])}

FirstBrokenPair(chain) == CHOOSE k \in BrokenPairs(chain) : \A j \in BrokenPairs(chain) : k <= j

\* the shortest paths of the pairs of the chain before its k-th device, one
\* after the other
RECURSIVE RealizedUpTo(_, _)
RealizedUpTo(chain, k) ==
    IF k = 1 THEN {<<chain[1]>>}
    ELSE {realized \o Tail(path) :
             realized \in RealizedUpTo(chain, k - 1),
             path \in ShortestPaths(chain[k - 1], chain[k])}

\* what the diagnostic of a broken chain reports
IsReportOf(diagnostic, chain) ==
    LET k == FirstBrokenPair(chain)
    IN /\ diagnostic.broken_link = chain[k] \o " -> " \o chain[k + 1]
       /\ diagnostic.expected_chain = join_names(chain)
       /\ \E realized \in RealizedUpTo(chain, k) :
              diagnostic.actual_chain = join_names(Append(realized, "???"))

ChainDiagnostics == SelectSeq(causality_result.diagnostics, LAMBDA d : d.action = None)

BrokenChains ==
    SelectSeq([i \in DOMAIN program.constraints.causality |-> i],
              LAMBDA i : BrokenPairs(DeclaredChain(i)) # {})

\* C15: a declared chain has a chain diagnostic if and only if one of its
\* adjacent pairs has no directed path in the runtime graph (the edges of the
\* topology and an edge X -> D for every device D that detects a state of
\* X); the diagnostics follow the order of the chains, the broken link is
\* the first such pair, and the realized chain is made of the shortest paths
\* of the pairs before it, followed by ???.
C15_ChainDiagnostics ==
    CausalityVerified =>
        /\ Len(ChainDiagnostics) = Len(BrokenChains)
        /\ \A k \in DOMAIN BrokenChains :
               IsReportOf(ChainDiagnostics[k], DeclaredChain(BrokenChains[k]))

\* a chain whose first pair is joined by a path through a device the chain
\* does not name and whose second pair is broken, next to an intact chain
C15_Witness ==
    /\ CausalityVerified
    /\ Len(program.constraints.causality) = 2
    /\ DeclaredChain(1) = <<"Y0", "cyl_A", "sensor_A_ext">>
    /\ BrokenPairs(DeclaredChain(1)) = {2}
    /\ BrokenPairs(DeclaredChain(2)) = {}
    /\ Len(ChainDiagnostics) = 1
    /\ ChainDiagnostics[1].broken_link = "cyl_A -> sensor_A_ext"
    /\ ChainDiagnostics[1].actual_chain = "Y0 -> valve_A -> cyl_A -> ???"

\* the program of the scenario: the chain Y0 -> valve_A -> cyl_A ->
\* sensor_A_ext, the valve on Y0, the cylinder without connected_to, the
\* sensor detecting cyl_A.extended, and a step that extends cyl_A and waits
\* on sensor_A_ext
BrokenValveLinkScenario ==
    /\ Len(program.constraints.causality) = 1
    /\ DeclaredChain(1) = <<"Y0", "valve_A", "cyl_A", "sensor_A_ext">>
    /\ Devices[3].attributes.connected_to = Some("Y0")
    /\ Devices[4].attributes.connected_to = None
    /\ Devices[5].attributes.detects = Some(StateReference("cyl_A", "extended"))
    /\ program.tasks[1].steps[1].statements
           = <<Extend("cyl_A"), SensorWait("sensor_A_ext")>>

ReportsBrokenValveLink(diagnostic) ==
    /\ diagnostic.broken_link = "valve_A -> cyl_A"
    /\ diagnostic.expected_chain = "Y0 -> valve_A -> cyl_A -> sensor_A_ext"
    /\ diagnostic.actual_chain = "Y0 -> valve_A -> ???"

\* C16 as stated: in the scenario verify_causality returns exactly one
\* diagnostic, with broken link valve_A -> cyl_A, expected chain Y0 ->
\* valve_A -> cyl_A -> sensor_A_ext and realized chain Y0 -> valve_A -> ???.
C16_AsStated ==
    CausalityVerified /\ BrokenValveLinkScenario =>
        /\ Len(causality_result.diagnostics) = 1
        /\ ReportsBrokenValveLink(causality_result.diagnostics[1])

\* C16: in the scenario verify_causality returns two diagnostics, each with
\* broken link valve_A -> cyl_A, expected chain Y0 -> valve_A -> cyl_A ->
\* sensor_A_ext and realized chain Y0 -> valve_A -> ???: that of the declared
\* chain, on the line of the chain and without action or wait, then that of
\* the action and the wait of the step, on the line of the step.
C16_BrokenValveLink ==
    CausalityVerified /\ BrokenValveLinkScenario =>
        /\ ~causality_result.ok
        /\ Len(causality_result.diagnostics) = 2
        /\ \A k \in 1..2 : ReportsBrokenValveLink(causality_result.diagnostics[k])
        /\ causality_result.diagnostics[1].line = program.constraints.causality[1].line
        /\ causality_result.diagnostics[1].action = None
        /\ causality_result.diagnostics[1].wait = None
        /\ causality_result.diagnostics[2].line = program.tasks[1].steps[1].line
        /\ causality_result.diagnostics[2].action = Some("extend cyl_A")
        /\ causality_result.diagnostics[2].wait = Some("sensor_A_ext == true")

C16_Witness == CausalityVerified /\ BrokenValveLinkScenario

----------------------------------------------------------------------------
(* build_state_machine: the faults of a task list and their diagnostics *)

BuildAttempted == pc \in {"built", "build_failed"}

Fault(kind, line, name) == [kind |-> kind, line |-> line, name |-> name]

RECURSIVE JumpsIn(_)
\* every goto, timeout target and race `then: goto` of a statement tree, as
\* the line it is declared on and the task it names
JumpsIn(statements) ==
    UNION {CASE s.statement = "goto" -> {[line |-> s.line, task |-> s.step]}
             [] s.statement = "timeout" ->
                    {[line |-> s.target.line, task |-> s.target.step]}
             [] s.statement = "parallel" ->
                    UNION {JumpsIn(branch.statements) : branch \in Range(s.branches)}
             [] s.statement = "race" ->
                    UNION {JumpsIn(branch.statements)
                               \cup (IF IsSome(branch.then_goto)
                                     THEN {[line |-> Unwrap(branch.then_goto).line,
                                            task |-> Unwrap(branch.then_goto).step]}
                                     ELSE {}) : branch \in Range(s.branches)}
             [] OTHER -> {} : s \in Range(statements)}

\* the on_complete: goto directives, on the line of the on_complete statement
\* (the task's line when the AST carries none)
OnCompleteJumps(tasks) ==
    {[line |-> IF IsSome(tasks[i].on_complete_line)
               THEN Unwrap(tasks[i].on_complete_line) ELSE tasks[i].line,
      task |-> Unwrap(tasks[i].on_complete).step] :
        i \in {k \in DOMAIN tasks : /\ IsSome(tasks[k].on_complete)
                                    /\ Unwrap(tasks[k].on_complete).on_complete = "goto"}}

StepJumps(task) == UNION {JumpsIn(task.steps[s].statements) : s \in DOMAIN task.steps}

DeclaredTaskNames(tasks) == {tasks[i].name : i \in DOMAIN tasks}

\* the faults of a task list that name a declaration: a task without steps,
\* a task whose name an earlier task has, a jump to a task that is not declared
DeclarationFaults(tasks) ==
    {Fault("semantic", tasks[i].line, tasks[i].name) :
        i \in {k \in DOMAIN tasks : tasks[k].steps = <<>>}}
    \cup {Fault("duplicate_definition", tasks[i].line, tasks[i].name) :
            i \in {k \in DOMAIN tasks : \E j \in 1..(k - 1) : tasks[j].name = tasks[k].name}}
    \cup {Fault("undefined_reference", jump.line, jump.task) :
            jump \in {j \in OnCompleteJumps(tasks)
                            \cup UNION {StepJumps(tasks[i]) : i \in DOMAIN tasks} :
                          j.task \notin DeclaredTaskNames(tasks)}}

Diagnosed(fault) ==
    \E k \in DOMAIN sm.errors :
        /\ sm.errors[k].kind = fault.kind
        /\ sm.errors[k].line = fault.line

Faulty(tasks) == tasks = <<>> \/ DeclarationFaults(tasks) # {}

NoStateMachineReturned == ~sm.ok /\ sm.states = <<>> /\ sm.transitions = <<>>

\* C21: build_state_machine returns Err and no state machine whenever the
\* task list is empty, a task has no steps, a task name is repeated, or a
\* goto, timeout, on_complete or race-then target names an undeclared task;
\* and the errors hold, for every such fault, a diagnostic of the matching
\* kind on the line of the offending declaration.
C21_EveryFaultDiagnosed ==
    BuildAttempted /\ Faulty(program.tasks) =>
        /\ NoStateMachineReturned
        /\ sm.errors # <<>>
        /\ program.tasks = <<>> => \E k \in DOMAIN sm.errors : sm.errors[k].kind = "semantic"
        /\ \A fault \in DeclarationFaults(program.tasks) : Diagnosed(fault)

\* the part of C21 that holds of the code: a faulty task list is rejected,
\* and every fault is diagnosed when every declared task has a step
C21_FaultsOfTasksWithSteps ==
    BuildAttempted /\ Faulty(program.tasks) =>
        /\ NoStateMachineReturned
        /\ sm.errors # <<>>
        /\ (\A i \in DOMAIN program.tasks : program.tasks[i].steps # <<>>) =>
               \A fault \in DeclarationFaults(program.tasks) : Diagnosed(fault)

\* a task that repeats a name and has no steps: the loop leaves the task at
\* `continue` before the name is looked up, and no duplicate_definition is
\* reported for it
C21_RepeatedNameNotReported ==
    /\ pc = "build_failed"
    /\ \E i \in DOMAIN program.tasks :
          /\ \E j \in 1..(i - 1) : program.tasks[j].name = program.tasks[i].name
          /\ \A k \in DOMAIN sm.errors : sm.errors[k].kind # "duplicate_definition"

\* no task has a step: the builder returns at the missing initial state,
\* before the on_complete targets are resolved
C21_OnCompleteTargetNotReported ==
    /\ pc = "build_failed"
    /\ \E jump \in OnCompleteJumps(program.tasks) :
          /\ jump.task \notin DeclaredTaskNames(program.tasks)
          /\ \A k \in DOMAIN sm.errors : sm.errors[k].kind # "undefined_reference"

----------------------------------------------------------------------------
(* verify_liveness: repeated runs *)

SccDiagnostics ==
    {d \in DOMAIN liveness_result.diagnostics :
        liveness_result.diagnostics[d].check = "scc"}

----------------------------------------------------------------------------
(* verify_all: the issues it returns *)

Checkers == <<"safety", "liveness", "timing", "causality">>

\* what each verifier returns on the inputs verify_all was called with
ReportsOf(checker) ==
    CASE checker = "safety" ->
             {verify_safety(program, Unwrap(constraints_result.value), sm).diagnostics}
      [] checker = "liveness" ->
             {verify_liveness(program, sm, order).diagnostics :
                 order \in scc_diagnostic_orders(program, sm,
                                                 collect_step_line_map(program))}
      [] checker = "timing" ->
             {verify_timing(program, Unwrap(topology_result.value),
                            Unwrap(constraints_result.value), sm).diagnostics}
      [] checker = "causality" ->
             {verify_causality(program, Unwrap(topology_result.value),
                               Unwrap(constraints_result.value)).diagnostics}

\* the diagnostics behind the issues of a checker, in the order of the issues
IssuedBy(checker) ==
    MapSeq(LAMBDA issue : issue.diagnostic,
           SelectSeq(verification.issues, LAMBDA issue : issue.checker = checker))

StageOf(checker) == CHOOSE k \in DOMAIN Checkers : Checkers[k] = checker

IssuesInStageOrder ==
    \A i, j \in DOMAIN verification.issues :
        i < j => StageOf(verification.issues[i].checker)
                     <= StageOf(verification.issues[j].checker)

VerifyAllReturned ==
    /\ \A k \in DOMAIN verification.issues :
           verification.issues[k].checker \in Range(Checkers)
    /\ \A checker \in Range(Checkers) : IssuedBy(checker) \in ReportsOf(checker)
    /\ IssuesInStageOrder
    /\ ~verification.ok <=> \E checker \in Range(Checkers) : IssuedBy(checker) # <<>>
    /\ verification.ok =>
           /\ verification.issues = <<>>
           /\ verification.summary.liveness = "Passed"
           /\ verification.summary.safety.level \in {"Complete", "Bounded"}

\* C22: verify_all runs the four verifiers on every call: it returns Err
\* exactly when at least one of them produced a diagnostic, the issues being
\* all those of safety, then of liveness, of timing and of causality, each
\* group whole and in the order its verifier emitted it, and the Ok summary
\* only when none produced one; a second call on the same inputs returns
\* what the first returned.
C22_VerifyAll ==
    /\ [](verification.done => VerifyAllReturned)
    /\ [][VerifyAll /\ verification.done => verification' = verification]_vars

\* every verifier has reported, one of them twice
C22_Witness ==
    /\ verification.done
    /\ \A checker \in Range(Checkers) : IssuedBy(checker) # <<>>
    /\ \E checker \in Range(Checkers) : Len(IssuedBy(checker)) >= 2

----------------------------------------------------------------------------
(* compile_pipeline: builders that fail *)

\* what verify_liveness reports on the state machine build_state_machine
\* returns for the program
LivenessReports ==
    {verify_liveness(program, build_state_machine(program), order).diagnostics :
        order \in scc_diagnostic_orders(program, build_state_machine(program),
                                        collect_step_line_map(program))}

ConstraintSetAloneFails ==
    /\ ~build_constraint_set(program).ok
    /\ build_state_machine(program).ok
    /\ build_topology_graph(program).ok
    /\ build_timing_model(program).ok

\* the errors compile_pipeline returned that are issues of a verifier
ReturnedIssuesOf(checker) ==
    SelectSeq(compiled.errors,
              LAMBDA e : "checker" \in DOMAIN e /\ e.checker = checker)

\* C23: when build_constraint_set fails while build_state_machine succeeds,
\* the driver still runs the liveness verifier on the state machine and
\* returns its diagnostics together with the builder's.
C23_LivenessStillRuns ==
    compiled.done /\ ConstraintSetAloneFails =>
        /\ ~compiled.ok
        /\ \A k \in DOMAIN build_constraint_set(program).errors :
               build_constraint_set(program).errors[k] \in Range(compiled.errors)
        /\ MapSeq(LAMBDA issue : issue.diagnostic, ReturnedIssuesOf("liveness"))
               \in LivenessReports

\* what the code does: the errors of the builders are all that is returned
C23_BuilderErrorsOnly ==
    compiled.done /\ ConstraintSetAloneFails =>
        compiled = CompileErr(build_constraint_set(program).errors)

\* the constraint set fails to build, the state machine is built and has a
\* wait that the liveness verifier would report, and the driver returns the
\* builder's errors alone
C23_VerifiersSkipped ==
    /\ compiled.done
    /\ ConstraintSetAloneFails
    /\ <<>> \notin LivenessReports
    /\ compiled.errors = build_constraint_set(program).errors

----------------------------------------------------------------------------
(* verify_timing: one more action in a step *)

InsertAt(s, k, x) == SubSeq(s, 1, k) \o <<x>> \o SubSeq(s, k + 1, Len(s))

RECURSIVE WithAction(_, _)
\* the statement lists that are `statements` with the action added at some
\* place of the list or of a branch of one of its blocks
WithAction(statements, action) ==
    {InsertAt(statements, k, action) : k \in 0..Len(statements)}
    \cup UNION {UNION {{[statements EXCEPT ![i].branches[b].statements = inner] :
                          inner \in WithAction(statements[i].branches[b].statements,
                                               action)} :
                      b \in DOMAIN statements[i].branches} :
                  i \in {n \in DOMAIN statements :
                            statements[n].statement \in {"parallel", "race"}}}

\* actions with a duration of their own, with a duration that comes from
\* upstream, without duration, and on a device that is not declared
AddedActions ==
    {Extend("cyl_A"), Retract("cyl_A"), Set("motor_A", "on"), Set("valve_A", "on"),
     Set("lamp", "on"), Log("start"), Extend("ghost")}

\* the programs that are `program` with one more action in one step
WithOneMoreAction ==
    UNION {UNION {{[program EXCEPT !["tasks"][i].steps[j].statements = richer] :
                      richer \in UNION {WithAction(program.tasks[i].steps[j].statements, a) :
                                           a \in AddedActions}} :
                  j \in DOMAIN program.tasks[i].steps} :
           i \in DOMAIN program.tasks}

EstimatesOf(p) ==
    build_step_estimates(p, TimingContext(p, Unwrap(topology_result.value)))

NeverShorter(before, after) ==
    /\ DOMAIN after = DOMAIN before
    /\ \A k \in DOMAIN before : after[k] >= before[k]

StepWorstCasesOf(p) ==
    [k \in DOMAIN EstimatesOf(p) |-> EstimatesOf(p)[k].worst_case_ms]

TaskWorstCasesOf(p) == build_task_worst_case(p, EstimatesOf(p))

NeverShorterThan(steps, tasks) ==
    \A richer \in WithOneMoreAction :
        /\ NeverShorter(steps, StepWorstCasesOf(richer))
        /\ NeverShorter(tasks, TaskWorstCasesOf(richer))

\* C24: adding one more action to a step, at top level or inside a branch,
\* everything else unchanged, gives a worst-case duration for the step, and
\* for its task, greater than or equal to the duration before the addition.
C24_OneMoreAction ==
    TimingVerified =>
        NeverShorterThan(StepWorstCasesOf(program), TaskWorstCasesOf(program))

\* a step of two names whose worst case is that of retract cyl_A, to which
\* a shorter action can be added after it, and a step that a longer action
\* makes longer
C24_Witness ==
    /\ TimingVerified
    /\ \E k \in DOMAIN EstimatesOf(program) :
          /\ EstimatesOf(program)[k].action_max_ms = 350
          /\ EstimatesOf(program)[k].worst_case_ms = 350
    /\ \E richer \in WithOneMoreAction :
          \E k \in DOMAIN EstimatesOf(program) :
              StepWorstCasesOf(richer)[k] > StepWorstCasesOf(program)[k]

----------------------------------------------------------------------------
(* analyze_rule: the search ends *)

Searching == pc = "search"

\* no two nodes of the running search hold the same concrete state
EnqueuedAtMostOnce ==
    \A i, j \in DOMAIN nodes : nodes[i].state = nodes[j].state => i = j

NoNodeBeyondDepth ==
    \A i \in DOMAIN nodes : nodes[i].depth <= depth_plan.effective_depth

\* analyze_rule has returned: with a counterexample, or with an empty queue
SearchReturned ==
    /\ pc = "rules"
    /\ outcomes # <<>>
    /\ outcomes[Len(outcomes)].counterexample \/ queue = <<>>

\* C26: the safety search terminates for every model, rule and depth bound:
\* each concrete state is enqueued at most once, no node is deeper than the
\* effective depth, and every search comes to an empty queue or returns a
\* counterexample (and so verify_safety returns).
C26_SearchTerminates ==
    /\ [](Searching => EnqueuedAtMostOnce /\ NoNodeBeyondDepth)
    /\ Searching ~> SearchReturned
    /\ (pc = "rules") ~> (pc = "done")

\* a search with a depth limit that has met a known state again, holds a
\* node at the limit and has nodes left in the queue
C26_Witness ==
    /\ Searching
    /\ IsSome(config.bmc_max_depth)
    /\ Len(queue) >= 2
    /\ \E i \in DOMAIN nodes : nodes[i].depth = depth_plan.effective_depth
    /\ \E i \in DOMAIN nodes :
          \E k \in DOMAIN model.outgoing[nodes[i].state.control_state] :
              LET next == apply_edge(
                              model.edges[model.outgoing[nodes[i].state.control_state][k]],
                              nodes[i].state)
              IN /\ nodes[i].depth < depth_plan.effective_depth
                 /\ next \in DOMAIN shortest_depth
                 /\ \E j \in DOMAIN nodes : j <= i /\ nodes[j].state = next

----------------------------------------------------------------------------
(* verify_safety: the depth explored without bmc_max_depth *)

\* the control states that the edges of the model lead to from s, in one
\* step or more
ModelStatesAfter(s) ==
    ReachableFrom(model.edges, {},
                  {model.edges[i].to : i \in {j \in DOMAIN model.edges :
                                                  model.edges[j].from = s}})

\* the cyclic strongly connected components of the model graph
CyclicModelComponents ==
    {{t \in DOMAIN model.states : t \in ModelStatesAfter(s) /\ s \in ModelStatesAfter(t)} :
        s \in {u \in DOMAIN model.states : u \in ModelStatesAfter(u)}}

\* every state without transition has its synthetic self-loop in the model
SelfLoopsIncluded ==
    \A s \in DOMAIN model.states :
        (\A t \in Range(sm.transitions) : t.from # model.states[s]) =>
            \E i \in DOMAIN model.edges :
                model.edges[i].from = s /\ model.edges[i].to = s

ReportedWithoutLimit ==
    pc = "done" /\ safety_result.ok /\ ~IsSome(config.bmc_max_depth)

\* C27: with no bmc_max_depth the explored_depth of the report is
\* max(number of control states, maximum over the cyclic strongly connected
\* components of the model graph, synthetic self-loops included, of size + 1);
\* it is at least the number of control states and at least the size of
\* every cyclic component plus one.
C27_ExploredDepth ==
    ReportedWithoutLimit =>
        /\ SelfLoopsIncluded
        /\ Len(model.states) = Len(sm.states)
        /\ safety_result.explored_depth
               = Max(Len(sm.states), SetMax({Cardinality(c) + 1 : c \in CyclicModelComponents}))
        /\ safety_result.explored_depth >= Len(sm.states)
        /\ \A c \in CyclicModelComponents : safety_result.explored_depth >= Cardinality(c) + 1

\* a report whose depth comes from a cycle through every control state, of
\* two states or more
C27_Witness ==
    /\ ReportedWithoutLimit
    /\ Len(sm.states) >= 2
    /\ DOMAIN model.states \in CyclicModelComponents
    /\ safety_result.explored_depth = Len(sm.states) + 1

----------------------------------------------------------------------------
(* build_depth_plan: the truncation warning *)

TruncationWarnings ==
    SelectSeq(depth_plan.warnings, LAMBDA w : w.warning \in {"scc", "states"})

\* C28: when bmc_max_depth is smaller than the target depth, exactly one
\* truncation warning is emitted; it names the SCC floor when the largest
\* cyclic component size plus one determines the target, and the state-count
\* floor when the number of control states does.
C28_WarningNamesBindingFloor ==
    DepthPlanned /\ Truncates =>
        /\ Len(TruncationWarnings) = 1
        /\ model.max_scc_depth > Len(model.states) =>
               TruncationWarnings[1].warning = "scc"
        /\ Len(model.states) > model.max_scc_depth =>
               TruncationWarnings[1].warning = "states"

\* what build_depth_plan does: one warning, which names the SCC floor
\* whenever the limit is below it, whichever floor made the target
C28_WarningOfTheLimit ==
    DepthPlanned =>
        IF Truncates
        THEN /\ Len(TruncationWarnings) = 1
             /\ TruncationWarnings[1].warning
                    = IF Unwrap(config.bmc_max_depth) < model.max_scc_depth
                      THEN "scc" ELSE "states"
        ELSE TruncationWarnings = <<>>

\* the target is the number of control states, above the SCC floor, and the
\* report carries a warning that names the SCC floor
C28_SccNamedUnderStateCount ==
    /\ pc = "done" /\ safety_result.ok
    /\ Truncates
    /\ Len(model.states) > model.max_scc_depth
    /\ model.suggested_depth = Len(model.states)
    /\ \E w \in Range(safety_result.warnings) :
          w.warning = "scc" /\ w.depth = model.max_scc_depth

----------------------------------------------------------------------------
(* build_state_machine: the timers of the transitions *)

MachineBuilt == pc = "built" /\ sm.ok

\* the durations of the timeouts declared in the statements and in the
\* branches of their blocks, in milliseconds
RECURSIVE DeclaredTimeoutsMs(_)
DeclaredTimeoutsMs(statements) ==
    UNION {IF statements[i].statement = "timeout"
           THEN {IF statements[i].duration.unit = "s"
                 THEN 1000 * statements[i].duration.value
                 ELSE statements[i].duration.value}
           ELSE IF statements[i].statement \in {"parallel", "race"}
           THEN UNION {DeclaredTimeoutsMs(statements[i].branches[b].statements) :
                          b \in DOMAIN statements[i].branches}
           ELSE {} : i \in DOMAIN statements}

StartsOneTimer(t) ==
    /\ t.actions = <<>>
    /\ Len(t.timers) = 1
    /\ t.timers[1].operation = "start"
    /\ t.timers[1].duration_ms = t.guard.duration_ms

\* C29: in every built state machine a transition guarded timeout(d), from
\* a step state, a parallel branch state or a race branch state, has no
\* action and exactly one timer operation, a start with duration d; a
\* transition guarded always or condition has no timer.
C29_TimersOfTransitions ==
    MachineBuilt =>
        /\ \A i \in DOMAIN sm.transitions :
               IF sm.transitions[i].guard.kind = "timeout"
               THEN StartsOneTimer(sm.transitions[i])
               ELSE /\ sm.transitions[i].guard.kind \in {"always", "condition"}
                    /\ sm.transitions[i].timers = <<>>
        /\ \A i \in DOMAIN program.tasks : \A j \in DOMAIN program.tasks[i].steps :
               \A d \in DeclaredTimeoutsMs(program.tasks[i].steps[j].statements) :
                   \E t \in Range(sm.transitions) :
                       t.guard = GuardTimeout(d) /\ t.from.task_name = program.tasks[i].name

TimeoutLeaves(state) ==
    \E t \in Range(sm.transitions) : t.guard.kind = "timeout" /\ t.from = state

\* a machine with a timeout out of a step state (of 2 s), out of a branch
\* state of a parallel block and out of a branch state of a race block
C29_Witness ==
    /\ MachineBuilt
    /\ \E t \in Range(sm.transitions) :
          /\ t.guard = GuardTimeout(2000)
          /\ \E i \in DOMAIN program.tasks : \E j \in DOMAIN program.tasks[i].steps :
                 t.from = State(program.tasks[i].name, program.tasks[i].steps[j].name)
    /\ \E s \in Range(sm.states) :
          TimeoutLeaves(s) /\ EndsWith(s.step_name, "__parallel_1_branch_1")
    /\ \E s \in Range(sm.states) :
          TimeoutLeaves(s) /\ EndsWith(s.step_name, "__race_1_branch_1")

----------------------------------------------------------------------------
(* build_state_machine: the transitions of a step to its completion target *)

TopLevel(step, kind) == SelectSeq(step.statements, LAMBDA s : s.statement = kind)

TopLevelActions(step) ==
    [k \in DOMAIN TopLevel(step, "action") |->
        [action |-> TopLevel(step, "action")[k].action,
         target |-> TopLevel(step, "action")[k].target,
         value |-> TopLevel(step, "action")[k].value]]

HasGotoOrBlock(step) ==
    \E s \in Range(step.statements) : s.statement \in {"goto", "parallel", "race"}

\* the transitions the claim gives step j of task i
ConditionTransitionsOf(i, j) ==
    LET step == program.tasks[i].steps[j]
        waits == TopLevel(step, "wait")
    IN IF ~IsSome(CompletionTargetOf(i, j)) THEN <<>>
       ELSE [k \in DOMAIN waits |->
                Transition(State(program.tasks[i].name, step.name),
                           Unwrap(CompletionTargetOf(i, j)),
                           GuardCondition(wait_to_guard_expression(waits[k])),
                           TopLevelActions(step), <<>>)]

AlwaysTransitionsOf(i, j) ==
    LET step == program.tasks[i].steps[j]
    IN IF IsSome(CompletionTargetOf(i, j)) /\ TopLevel(step, "wait") = <<>>
          /\ ~HasGotoOrBlock(step)
       THEN <<Transition(State(program.tasks[i].name, step.name),
                         Unwrap(CompletionTargetOf(i, j)), GuardAlways,
                         TopLevelActions(step), <<>>)>>
       ELSE <<>>

\* the steps of task i that are declared with the name of its step j, in
\* declaration order
StepsNamedAs(i, j) ==
    SelectSeq([k \in DOMAIN program.tasks[i].steps |-> k],
              LAMBDA k : program.tasks[i].steps[k].name = program.tasks[i].steps[j].name)

TransitionsLeaving(i, j, kinds) ==
    SelectSeq(sm.transitions,
              LAMBDA t : /\ t.from = State(program.tasks[i].name,
                                           program.tasks[i].steps[j].name)
                         /\ t.guard.kind \in kinds)

StepTransitionsAsClaimed(i, j) ==
    LET same == StepsNamedAs(i, j)
        plain == \A k \in Range(same) : ~HasGotoOrBlock(program.tasks[i].steps[k])
    IN /\ TransitionsLeaving(i, j, {"condition"})
              = Concat([n \in DOMAIN same |-> ConditionTransitionsOf(i, same[n])])
       /\ plain =>
              TransitionsLeaving(i, j, {"always"})
                  = Concat([n \in DOMAIN same |-> AlwaysTransitionsOf(i, same[n])])
       /\ plain /\ (\A k \in Range(same) : ~IsSome(CompletionTargetOf(i, k))) =>
              TransitionsLeaving(i, j, {"always", "condition"}) = <<>>

\* C30: for every declared step S with completion target C (the next step
\* of the task, else the initial step of the on_complete goto target), each
\* wait of S yields exactly one condition transition S -> C with the
\* top-level actions of S in declaration order; a step without wait, goto,
\* parallel and race, with or without timeouts, yields exactly one always
\* transition S -> C with those actions; without completion target the waits
\* and the plain actions of S yield no transition.
C30_TransitionsToCompletion ==
    MachineBuilt =>
        \A i \in DOMAIN program.tasks : \A j \in DOMAIN program.tasks[i].steps :
            StepTransitionsAsClaimed(i, j)

\* a task whose first step has two actions and a timeout and goes on to the
\* second step by one always transition, and whose second step has two
\* waits among its two actions and goes to its on_complete target by two
\* condition transitions
C30_Witness ==
    /\ MachineBuilt
    /\ Len(program.tasks[1].steps) = 2
    /\ program.tasks[1].steps[1].name # program.tasks[1].steps[2].name
    /\ TopLevel(program.tasks[1].steps[1], "timeout") # <<>>
    /\ Len(AlwaysTransitionsOf(1, 1)) = 1
    /\ Len(AlwaysTransitionsOf(1, 1)[1].actions) = 2
    /\ TransitionsLeaving(1, 1, {"always"}) = AlwaysTransitionsOf(1, 1)
    /\ Len(ConditionTransitionsOf(1, 2)) = 2
    /\ Len(ConditionTransitionsOf(1, 2)[1].actions) = 2
    /\ ConditionTransitionsOf(1, 2)[1].guard # ConditionTransitionsOf(1, 2)[2].guard
    /\ TransitionsLeaving(1, 2, {"condition"}) = ConditionTransitionsOf(1, 2)

----------------------------------------------------------------------------
(* build_state_machine: the lowering of the blocks of a step *)

\* a block of kind "parallel" or "race": the index-th block of its kind in
\* the statements of `name` (a step, or a branch state), with the actions
\* of those statements and the completion target of what encloses it
BlockSite(kind, task_name, name, index, block, actions, target) ==
    [kind |-> kind, task |-> task_name, name |-> name, index |-> index,
     block |-> block, actions |-> actions, target |-> target]

BlockPrefix(site) ==
    site.name \o "__" \o site.kind \o "_" \o ToString(site.index)

BranchName(site, b) == BlockPrefix(site) \o "_branch_" \o ToString(b)

\* the completion target of a race branch: the initial step of the task of
\* its then: goto, else the target of what encloses the block
RaceBranchTarget(branch, target) ==
    IF IsSome(branch.then_goto) THEN Some(InitialStateOf(Unwrap(branch.then_goto).step))
    ELSE target

\* the blocks in the statements of `container`, the blocks of their
\* branches included, in the order in which the builder lowers them
RECURSIVE SitesIn(_, _, _, _)
SitesIn(task_name, name, container, target) ==
    LET actions == TopLevelActions(container)
        SitesOfKind(kind) ==
            LET blocks == TopLevel(container, kind)
            IN Concat([k \in DOMAIN blocks |->
                   LET site == BlockSite(kind, task_name, name, k, blocks[k], actions, target)
                   IN <<site>> \o
                      Concat([b \in DOMAIN blocks[k].branches |->
                          SitesIn(task_name, BranchName(site, b), blocks[k].branches[b],
                                  IF kind = "parallel"
                                  THEN Some(State(task_name, BlockPrefix(site) \o "_join"))
                                  ELSE RaceBranchTarget(blocks[k].branches[b], target))])])
    IN SitesOfKind("parallel") \o SitesOfKind("race")

AllSites ==
    Concat([i \in DOMAIN program.tasks |->
        Concat([j \in DOMAIN program.tasks[i].steps |->
            SitesIn(program.tasks[i].name, program.tasks[i].steps[j].name,
                    program.tasks[i].steps[j], CompletionTargetOf(i, j))])])

\* the blocks lowered into the same synthesized states as `site` (steps of
\* a task that share their name), in declaration order
SameSites(sites, site) ==
    SelectSeq(sites, LAMBDA y : /\ y.kind = site.kind /\ y.task = site.task
                                   /\ y.name = site.name /\ y.index = site.index)

SynthesizedState(site, suffix) == State(site.task, BlockPrefix(site) \o suffix)

\* a transition without its timers
Untimed(t) == [from |-> t.from, to |-> t.to, guard |-> t.guard, actions |-> t.actions]

Edge(from, to, guard, actions) ==
    [from |-> from, to |-> to, guard |-> guard, actions |-> actions]

EdgesBetween(from, to) ==
    MapSeq(Untimed, SelectSeq(sm.transitions, LAMBDA t : t.from = from /\ t.to = to))

\* the transitions that leave `from`, those into the fork and decision
\* states of nested blocks left out
BranchTransitions(from) ==
    MapSeq(Untimed,
           SelectSeq(sm.transitions,
                     LAMBDA t : /\ t.from = from
                                /\ ~EndsWith(t.to.step_name, "_fork")
                                /\ ~EndsWith(t.to.step_name, "_decision")))

HasWaitGotoOrBlock(container) ==
    \E s \in Range(container.statements) :
        s.statement \in {"wait", "goto", "parallel", "race"}

TimeoutMs(timeout) ==
    IF timeout.duration.unit = "s" THEN 1000 * timeout.duration.value
    ELSE timeout.duration.value

\* what a branch gives the transition list: its gotos, its timeouts, then
\* one condition transition into `target` per wait, or the one always
\* transition into `target` of a branch without wait, goto and block
BranchEdges(from, branch, target) ==
    LET actions == TopLevelActions(branch)
        gotos == TopLevel(branch, "goto")
        timeouts == TopLevel(branch, "timeout")
        waits == TopLevel(branch, "wait")
    IN [k \in DOMAIN gotos |->
           Edge(from, InitialStateOf(gotos[k].step), GuardAlways, actions)]
       \o [k \in DOMAIN timeouts |->
              Edge(from, InitialStateOf(timeouts[k].target.step),
                   GuardTimeout(TimeoutMs(timeouts[k])), <<>>)]
       \o (IF IsSome(target)
           THEN [k \in DOMAIN waits |->
                    Edge(from, Unwrap(target),
                         GuardCondition(wait_to_guard_expression(waits[k])), actions)]
                \o (IF HasWaitGotoOrBlock(branch) THEN <<>>
                    ELSE <<Edge(from, Unwrap(target), GuardAlways, actions)>>)
           ELSE <<>>)

\* the sites of `sites` that have a b-th branch
WithBranch(sites, b) == SelectSeq(sites, LAMBDA y : b <= Len(y.block.branches))

ParallelBlockAsClaimed(sites, site) ==
    LET same == SameSites(sites, site)
        fork == SynthesizedState(site, "_fork")
        join == SynthesizedState(site, "_join")
    IN /\ {fork, join} \subseteq Range(sm.states)
       /\ EdgesBetween(State(site.task, site.name), fork)
              = [n \in DOMAIN same |->
                    Edge(State(site.task, site.name), fork, GuardAlways, same[n].actions)]
       /\ \A b \in DOMAIN site.block.branches :
              LET branch_state == State(site.task, BranchName(site, b))
                  with == WithBranch(same, b)
              IN /\ branch_state \in Range(sm.states)
                 /\ EdgesBetween(fork, branch_state)
                        = [n \in DOMAIN with |-> Edge(fork, branch_state, GuardAlways, <<>>)]
                 /\ BranchTransitions(branch_state)
                        = Concat([n \in DOMAIN with |->
                              BranchEdges(branch_state, with[n].block.branches[b],
                                          Some(join))])

\* the states the blocks of the program are lowered into
SynthesizedStates(sites) ==
    UNION {{SynthesizedState(sites[n], IF sites[n].kind = "parallel"
                                       THEN "_fork" ELSE "_decision")}
           \cup {SynthesizedState(sites[n], "_join") : x \in
                    IF sites[n].kind = "parallel" THEN {1} ELSE {}}
           \cup {State(sites[n].task, BranchName(sites[n], b)) :
                    b \in DOMAIN sites[n].block.branches} :
           n \in DOMAIN sites}

DeclaredStepStates ==
    UNION {{State(program.tasks[i].name, program.tasks[i].steps[j].name) :
               j \in DOMAIN program.tasks[i].steps} : i \in DOMAIN program.tasks}

ParallelSites == SelectSeq(AllSites, LAMBDA x : x.kind = "parallel")

StatesAsClaimed(sites) ==
    /\ Range(sm.states) = DeclaredStepStates \cup SynthesizedStates(sites)
    /\ \A i, j \in DOMAIN sm.states : sm.states[i] = sm.states[j] => i = j

ParallelBlocksAsClaimed(sites) ==
    \A n \in DOMAIN sites :
        sites[n].kind = "parallel" => ParallelBlockAsClaimed(sites, sites[n])

\* C31: for the k-th parallel block with N branches of step S the builder
\* adds exactly the states S__parallel_k_fork, _join and _branch_1..N, one
\* always transition S -> fork with the actions of S and one always
\* transition without actions fork -> branch_i per branch; in branch i each
\* wait gives a condition transition branch_i -> join with the actions of
\* the branch, a branch without wait, goto and nested block gives exactly
\* one always transition branch_i -> join with its actions, and the goto
\* and timeout transitions of a branch come before its transitions into join.
C31_ParallelLowering ==
    MachineBuilt =>
        StatesAsClaimed(AllSites) /\ ParallelBlocksAsClaimed(AllSites)

\* a step with actions and a parallel block of three branches: one with
\* two waits, one of plain actions, one with a goto, a timeout and a wait
C31_Witness ==
    /\ MachineBuilt
    /\ \E n \in DOMAIN ParallelSites :
          LET site == ParallelSites[n]
          IN /\ Len(SameSites(ParallelSites, site)) = 1
             /\ Len(site.actions) = 2
             /\ Len(site.block.branches) = 3
             /\ Len(BranchTransitions(State(site.task, BranchName(site, 1)))) = 2
             /\ Len(BranchTransitions(State(site.task, BranchName(site, 2)))) = 1
             /\ Len(BranchTransitions(State(site.task, BranchName(site, 3)))) = 3
             /\ BranchTransitions(State(site.task, BranchName(site, 3)))[3].to
                    = SynthesizedState(site, "_join")

RaceBlockAsClaimed(sites, site) ==
    LET same == SameSites(sites, site)
        decision == SynthesizedState(site, "_decision")
    IN /\ decision \in Range(sm.states)
       /\ EdgesBetween(State(site.task, site.name), decision)
              = [n \in DOMAIN same |->
                    Edge(State(site.task, site.name), decision, GuardAlways,
                         same[n].actions)]
       /\ \A b \in DOMAIN site.block.branches :
              LET branch_state == State(site.task, BranchName(site, b))
                  with == WithBranch(same, b)
              IN /\ branch_state \in Range(sm.states)
                 /\ EdgesBetween(decision, branch_state)
                        = [n \in DOMAIN with |->
                              Edge(decision, branch_state, GuardAlways, <<>>)]
                 /\ BranchTransitions(branch_state)
                        = Concat([n \in DOMAIN with |->
                              BranchEdges(branch_state, with[n].block.branches[b],
                                  RaceBranchTarget(with[n].block.branches[b],
                                                   with[n].target))])

RaceBlocksAsClaimed(sites) ==
    \A n \in DOMAIN sites :
        sites[n].kind = "race" => RaceBlockAsClaimed(sites, sites[n])

\* C32: for every race block the step has one always transition with its
\* actions to the decision state, and the decision state one always
\* transition without actions to each branch state; the completion target
\* of a branch is the initial step of the task of its then: goto when it
\* has one, else that of the surrounding step; each wait of the branch gives
\* a condition transition into that target, and a branch without wait,
\* goto, parallel and race gives exactly one always transition into it.
C32_RaceLowering ==
    MachineBuilt => RaceBlocksAsClaimed(AllSites)

RaceSites == SelectSeq(AllSites, LAMBDA x : x.kind = "race")

\* a race block of a step whose completion target is not the initial step
\* of t2: a branch with then: goto t2 and two waits, a plain branch without
\* then, and a plain branch with then: goto t1, each into its own target
C32_Witness ==
    /\ MachineBuilt
    /\ \E n \in DOMAIN RaceSites :
          LET site == RaceSites[n]
              leaving(b) == BranchTransitions(State(site.task, BranchName(site, b)))
          IN /\ Len(SameSites(RaceSites, site)) = 1
             /\ IsSome(site.target)
             /\ Len(site.block.branches) = 3
             /\ Len(leaving(1)) = 2
             /\ leaving(1)[1].to = InitialStateOf("t2")
             /\ leaving(1)[1].guard.kind = "condition"
             /\ leaving(2) = <<Edge(State(site.task, BranchName(site, 2)),
                                    Unwrap(site.target), GuardAlways,
                                    TopLevelActions(site.block.branches[2]))>>
             /\ Len(leaving(3)) = 1
             /\ leaving(3)[1].to = InitialStateOf("t1")
             /\ InitialStateOf("t2") # Unwrap(site.target)

----------------------------------------------------------------------------
(* verify_timing: the duration of one action *)

\* the devices the declarations wire directly before a device
DirectUpstreams(devices, name) ==
    {Unwrap(devices[i].attributes.connected_to) :
        i \in {k \in DOMAIN devices :
                  /\ devices[k].name = name
                  /\ IsSome(devices[k].attributes.connected_to)}}

DeclaredMs(duration) == IF IsSome(duration) THEN Milliseconds(Unwrap(duration)) ELSE 0

\* the response_time a device declares, in ms, 0 where it declares none
ResponseOf(devices, name) ==
    SetMax({DeclaredMs(devices[i].attributes.response_time) :
               i \in {k \in DOMAIN devices : devices[k].name = name}})

\* the largest sum of response times along a chain of connected_to links
\* upstream of a device, no device of `counted` being counted on it
RECURSIVE LargestUpstreamChain(_, _, _)
LargestUpstreamChain(devices, name, counted) ==
    SetMax({0} \cup
        {ResponseOf(devices, upstream)
            + LargestUpstreamChain(devices, upstream, counted \cup {upstream}) :
            upstream \in DirectUpstreams(devices, name) \ counted})

\* the attributes an action reads for its own duration, first present wins
SelectionOrder(action) ==
    CASE action.action = "extend" -> <<"stroke_time", "response_time", "ramp_time">>
      [] action.action = "retract" -> <<"retract_time", "response_time", "ramp_time">>
      [] action.action = "set" -> <<"ramp_time", "response_time">>
      [] OTHER -> <<>>

PresentAttributes(devices, action) ==
    SelectSeq(SelectionOrder(action),
        LAMBDA attribute :
            \E i \in DOMAIN devices :
                /\ devices[i].name = action.target
                /\ IsSome(devices[i].attributes[attribute]))

\* the duration of an action as the sum of its own duration and the largest
\* upstream chain, None for an action without own duration
DurationAsClaimed(devices, action) ==
    LET present == PresentAttributes(devices, action)
        declaration == CHOOSE i \in DOMAIN devices : devices[i].name = action.target
    IN IF present = <<>> THEN None
       ELSE Some(DeclaredMs(devices[declaration].attributes[present[1]])
                    + LargestUpstreamChain(devices, action.target, {action.target}))

\* the diagnostics of a zero budget on a step of one action: one with the
\* duration of the action as observed time, none for a skipped action
ObservedAsClaimed(devices, action) ==
    LET claimed == DurationAsClaimed(devices, action)
    IN IF IsSome(claimed) /\ Unwrap(claimed) > 0
       THEN /\ Len(timing_result.diagnostics) = 1
            /\ timing_result.diagnostics[1].observed_ms = Unwrap(claimed)
       ELSE timing_result.diagnostics = <<>>

TheAction == program.tasks[1].steps[1].statements[1]

\* C33: the duration of an action on a device D is D's own duration, the
\* first present attribute of the selection order of the action, plus the
\* largest sum of response_time along a connected_to chain upstream of D,
\* on which D is not added again and no device is counted twice; an action
\* without own duration is skipped. On a topology with a loop the walk
\* counts the device that closes the loop a second time.
C33_ActionDuration ==
    TimingVerified => ObservedAsClaimed(program.topology.devices, TheAction)

\* a topology where following connected_to from a device never comes back
RECURSIVE ComesBack(_, _, _)
ComesBack(devices, name, seen) ==
    \E upstream \in DirectUpstreams(devices, name) :
        upstream \in seen \/ ComesBack(devices, upstream, seen \cup {upstream})

WithoutLoop(devices) ==
    \A i \in DOMAIN devices : ~ComesBack(devices, devices[i].name, {devices[i].name})

\* the duration is the claimed one on every topology without a loop, and
\* the walk returns on every topology
DurationWithoutLoop ==
    /\ TimingVerified /\ WithoutLoop(program.topology.devices) =>
           ObservedAsClaimed(program.topology.devices, TheAction)
    /\ topology_result.ok /\ TheAction.action # "log" =>
           LET duration == action_duration_ms(
                               TimingContext(program, Unwrap(topology_result.value)),
                               TheAction)
           IN IsSome(duration) => Unwrap(duration) \in Nat

\* Y0 and Y1 wired behind each other: extend cyl_A is given
\* 200 + 30 + 20 + 40 + 20 ms, Y0 being counted at both ends of the loop
C33_Witness ==
    /\ TimingVerified
    /\ TheAction = Extend("cyl_A")
    /\ DirectUpstreams(program.topology.devices, "Y0") = {"Y1"}
    /\ DirectUpstreams(program.topology.devices, "Y1") = {"Y0"}
    /\ DurationAsClaimed(program.topology.devices, TheAction) = Some(200 + 30 + 20 + 40)
    /\ Len(timing_result.diagnostics) = 1
    /\ timing_result.diagnostics[1].observed_ms = 200 + 30 + 20 + 40 + 20

----------------------------------------------------------------------------
(* build_timing_model: the entries of the timing model *)

\* the extend, retract and set actions of a program, each as <<task, step,
\* place in the statement tree of the step>>
TimedOccurrences(p) ==
    UNION {UNION {{<<i, j, n>> :
                      n \in {k \in DOMAIN StatementTree(p.tasks[i].steps[j].statements) :
                                LET statement ==
                                        StatementTree(p.tasks[i].steps[j].statements)[k]
                                IN /\ statement.statement = "action"
                                   /\ statement.action \in {"extend", "retract", "set"}}} :
                  j \in DOMAIN p.tasks[i].steps} :
              i \in DOMAIN p.tasks}

ActionAt(p, occurrence) ==
    StatementTree(p.tasks[occurrence[1]].steps[occurrence[2]].statements)[occurrence[3]]

\* task.step.kind.target
KeyOf(p, occurrence) ==
    p.tasks[occurrence[1]].name \o "." \o p.tasks[occurrence[1]].steps[occurrence[2]].name
        \o "." \o ActionAt(p, occurrence).action \o "." \o ActionAt(p, occurrence).target

DevicesDeclaredIn(p) == {p.topology.devices[i].name : i \in DOMAIN p.topology.devices}

\* the occurrences whose device has an attribute of their selection order
OccurrencesWithDuration(p) ==
    {o \in TimedOccurrences(p) :
        PresentAttributes(p.topology.devices, ActionAt(p, o)) # <<>>}

FirstPresentMs(devices, action) ==
    LET declaration == CHOOSE i \in DOMAIN devices : devices[i].name = action.target
    IN DeclaredMs(devices[declaration].attributes[PresentAttributes(devices, action)[1]])

\* the keys of `count` occurrences of one key: the key, key.2, ..., key.count
KeysOfOccurrences(key, count) ==
    {key} \cup {key \o "." \o ToString(n) : n \in 2..count}

\* what the model is to hold for an occurrence
ClaimedEntry(p, occurrence) ==
    [occurrence |-> occurrence,
     key |-> KeyOf(p, occurrence),
     timing |-> [task_name |-> p.tasks[occurrence[1]].name,
                 step_name |-> p.tasks[occurrence[1]].steps[occurrence[2]].name,
                 action_kind |-> ActionAt(p, occurrence).action,
                 target |-> ActionAt(p, occurrence).target,
                 min_ms |-> FirstPresentMs(p.topology.devices, ActionAt(p, occurrence)),
                 max_ms |-> FirstPresentMs(p.topology.devices, ActionAt(p, occurrence))]]

ClaimedEntries(p) == {ClaimedEntry(p, o) : o \in OccurrencesWithDuration(p)}

EntriesAsClaimed(intervals, entries) ==
    /\ DOMAIN intervals =
           UNION {KeysOfOccurrences(e.key, Cardinality({x \in entries : x.key = e.key})) :
                  e \in entries}
    /\ Cardinality(DOMAIN intervals) = Cardinality(entries)
    /\ \A e \in entries :
           \A key \in KeysOfOccurrences(e.key,
                          Cardinality({x \in entries : x.key = e.key})) :
               intervals[key] = e.timing

TimingModelAsClaimed(p, result) ==
    /\ (\A o \in TimedOccurrences(p) : ActionAt(p, o).target \in DevicesDeclaredIn(p))
           => result.ok
    /\ result.ok => EntriesAsClaimed(Unwrap(result.value).intervals, ClaimedEntries(p))

\* C34: every extend, retract or set action of a step, those of parallel
\* and race branches included, has an entry in the timing model iff its
\* device has an attribute of the selection order of the action, with
\* min_ms = max_ms = the first present one; an action whose device has none
\* gives no entry and no error; the entry is under task.step.kind.target,
\* the n-th occurrence of a key under key.n, and no entry replaces another.
C34_TimingModelEntries ==
    compiled.done => TimingModelAsClaimed(program, build_timing_model(program))

\* a model with an entry under a key, under key.2 and under key.3, of a
\* program that has a set action on a device without ramp_time and
\* response_time, which has no entry
C34_Witness ==
    /\ compiled.done
    /\ build_timing_model(program).ok
    /\ \E o \in OccurrencesWithDuration(program) :
          KeysOfOccurrences(KeyOf(program, o), 3)
              \subseteq DOMAIN Unwrap(build_timing_model(program).value).intervals
    /\ \E o \in TimedOccurrences(program) \ OccurrencesWithDuration(program) :
          /\ ActionAt(program, o).action = "set"
          /\ KeyOf(program, o)
                 \notin DOMAIN Unwrap(build_timing_model(program).value).intervals

----------------------------------------------------------------------------
(* verify_causality: the pairs of a step *)

\* the sensor a wait refers to: its left operand, the device of its left
\* operand `device.state`, or the device of a state on its right
SensorsOfWait(p, wait) ==
    {name \in collect_sensor_names(p) :
        \/ wait.condition.left = name
        \/ first_segment(wait.condition.left) = name
        \/ wait.condition.right.kind = "state" /\ wait.condition.right.device = name}

\* the pairs of the product of the extend, retract and set actions of a
\* step with its waits on a sensor, each as <<task, step, place of the
\* action, place of the wait>> in the statement tree of the step
PairsOfTheProduct(p) ==
    UNION {UNION {LET tree == StatementTree(p.tasks[i].steps[j].statements)
                  IN {<<i, j>>} \X
                     {a \in DOMAIN tree :
                         /\ tree[a].statement = "action"
                         /\ tree[a].action \in {"extend", "retract", "set"}} \X
                     {w \in DOMAIN tree :
                         /\ tree[w].statement = "wait"
                         /\ SensorsOfWait(p, tree[w]) # {}} :
                  j \in DOMAIN p.tasks[i].steps} :
              i \in DOMAIN p.tasks}

\* the record the verifier is to check for a pair of the product
PairOfTheProduct(p, pair) ==
    LET step == p.tasks[pair[1][1]].steps[pair[1][2]]
        tree == StatementTree(step.statements)
        action == tree[pair[2]]
        wait == tree[pair[3]]
    IN ActionWaitPair(Max(step.line, 1),
           Unwrap(action_to_text_and_target(action)).text, action.target,
           wait_to_text(wait),
           CHOOSE sensor \in SensorsOfWait(p, wait) : TRUE)

\* the diagnostics of the pairs, as the pairs of the product give them
DiagnosticsOfPairs(p, topology, pairs) ==
    [pair \in pairs |->
        pair_diagnostic(RuntimeGraph(p, topology), <<>>,
                        collect_output_ports(topology), PairOfTheProduct(p, pair))]

\* every diagnostic is reported as often as the pairs of the product give it
ReportedAsOftenAs(reported, given) ==
    \A diagnostic \in Range(reported) \cup UNION {Range(given[pair]) : pair \in DOMAIN given} :
        Cardinality({k \in DOMAIN reported : reported[k] = diagnostic})
            = Cardinality({pair \in DOMAIN given : given[pair] = <<diagnostic>>})

\* C35: in every step the causality verifier checks every pair of the
\* product of the extend, retract and set actions of the step with the waits
\* of the step that refer to a sensor, wherever in the step the two are
\* declared; a wait that refers to no sensor forms no pair. The verifier
\* pairs the actions and the waits of one statement list only.
C35_PairsOfTheStep ==
    CausalityVerified =>
        ReportedAsOftenAs(causality_result.diagnostics,
            DiagnosticsOfPairs(program, Unwrap(topology_result.value),
                               PairsOfTheProduct(program)))

\* the pairs whose action and wait stand in one statement list
RECURSIVE ListsOf(_)
ListsOf(statements) ==
    <<statements>> \o
    Concat([i \in DOMAIN statements |->
        IF statements[i].statement \in {"parallel", "race"}
        THEN Concat([b \in DOMAIN statements[i].branches |->
                        ListsOf(statements[i].branches[b].statements)])
        ELSE <<>>])

PairsOfOneList(p) ==
    UNION {UNION {LET lists == ListsOf(p.tasks[i].steps[j].statements)
                  IN UNION {{<<i, j>>} \X
                            {l} \X
                            {a \in DOMAIN lists[l] :
                                /\ lists[l][a].statement = "action"
                                /\ lists[l][a].action \in {"extend", "retract", "set"}} \X
                            {w \in DOMAIN lists[l] :
                                /\ lists[l][w].statement = "wait"
                                /\ SensorsOfWait(p, lists[l][w]) # {}} :
                            l \in DOMAIN lists} :
                  j \in DOMAIN p.tasks[i].steps} :
              i \in DOMAIN p.tasks}

PairOfOneList(p, pair) ==
    LET step == p.tasks[pair[1][1]].steps[pair[1][2]]
        list == ListsOf(step.statements)[pair[2]]
    IN ActionWaitPair(Max(step.line, 1),
           Unwrap(action_to_text_and_target(list[pair[3]])).text, list[pair[3]].target,
           wait_to_text(list[pair[4]]),
           CHOOSE sensor \in SensorsOfWait(p, list[pair[4]]) : TRUE)

\* the verifier checks the pairs of every statement list of the step, the
\* step's own and that of every branch, and no other pair
PairsOfTheLists ==
    CausalityVerified =>
        LET topology == Unwrap(topology_result.value)
            pairs == PairsOfOneList(program)
        IN ReportedAsOftenAs(causality_result.diagnostics,
               [pair \in pairs |->
                   pair_diagnostic(RuntimeGraph(program, topology), <<>>,
                                   collect_output_ports(topology),
                                   PairOfOneList(program, pair))])

\* extend cyl_A at the step and the wait on sensor_A inside a branch of its
\* parallel block, nothing wired: the pair is broken and nothing is reported
C35_Witness ==
    /\ CausalityVerified
    /\ causality_result.diagnostics = <<>>
    /\ Len(program.tasks) = 1
    /\ Len(program.tasks[1].steps) = 1
    /\ program.tasks[1].steps[1].statements[1] = Extend("cyl_A")
    /\ program.tasks[1].steps[1].statements[2].statement = "parallel"
    /\ \E pair \in PairsOfTheProduct(program) :
          DiagnosticsOfPairs(program, Unwrap(topology_result.value), {pair})[pair] # <<>>

----------------------------------------------------------------------------
(* verify_causality: a pair that matches no declared chain *)

\* the links of the runtime graph as the declarations give them: from the
\* connected_to of a device to the device, and from the device a sensor
\* detects to the sensor
DeclaredLinks(p) ==
    LET devices == p.topology.devices
        names == {devices[i].name : i \in DOMAIN devices}
    IN {link \in names \X names :
           \E i \in DOMAIN devices :
               /\ devices[i].name = link[2]
               /\ \/ devices[i].attributes.connected_to = Some(link[1])
                  \/ /\ IsSome(devices[i].attributes.detects)
                     /\ Unwrap(devices[i].attributes.detects).device = link[1]}

RECURSIVE LinkedFrom(_, _)
LinkedFrom(links, reached) ==
    LET next == reached \cup {link[2] : link \in {l \in links : l[1] \in reached}}
    IN IF next = reached THEN reached ELSE LinkedFrom(links, next)

DeclaredPath(p, from, to) ==
    /\ \E i \in DOMAIN p.topology.devices : p.topology.devices[i].name = from
    /\ to \in LinkedFrom(DeclaredLinks(p), {from})

OutputPorts(p) ==
    {p.topology.devices[i].name :
        i \in {k \in DOMAIN p.topology.devices :
                  p.topology.devices[k].device_type = "digital_output"}}

\* some declared chain contains the action target before the wait sensor
InDeclaredChain(p, pair) ==
    \E c \in DOMAIN p.constraints.causality :
        LET chain == p.constraints.causality[c].chain
        IN \E i, j \in DOMAIN chain :
               /\ i < j
               /\ chain[i].device = pair.action_target
               /\ chain[j].device = pair.wait_sensor

DiagnosticsOfPair(pair) ==
    SelectSeq(causality_result.diagnostics,
        LAMBDA d : /\ d.line = pair.line
                   /\ d.action = Some(pair.action)
                   /\ d.wait = Some(pair.wait))

PairAsClaimed(p, pair) ==
    LET source == \E output \in OutputPorts(p) : DeclaredPath(p, output, pair.action_target)
        feedback == DeclaredPath(p, pair.action_target, pair.wait_sensor)
        reported == DiagnosticsOfPair(pair)
    IN IF source /\ feedback THEN reported = <<>>
       ELSE /\ Len(reported) = 1
            /\ IF ~source
               THEN \E output \in OutputPorts(p) \cup {"<output port>"} :
                       reported[1].broken_link = output \o " -> " \o pair.action_target
               ELSE reported[1].broken_link
                        = pair.action_target \o " -> " \o pair.wait_sensor

UndeclaredPairs(p) ==
    SelectSeq(collect_action_wait_pairs(p, collect_sensor_names(p)),
              LAMBDA pair : ~InDeclaredChain(p, pair))

\* C36: for a pair of an action and a wait that no declared chain contains
\* with the action target before the wait sensor, nothing is reported iff
\* the runtime graph has a path from some digital_output to the action
\* target and a path from the action target to the wait sensor; otherwise
\* exactly one diagnostic is reported for the pair, its broken link into the
\* action target when the source path is missing, and from the action
\* target to the sensor when only the feedback path is missing.
C36_UndeclaredPair ==
    CausalityVerified =>
        \A k \in DOMAIN UndeclaredPairs(program) :
            PairAsClaimed(program, UndeclaredPairs(program)[k])

\* a declared chain that does not contain the pair, the valve not wired
\* and the sensor detecting the cylinder: one diagnostic of the pair of
\* extend cyl_A, with the link from the output into the cylinder
C36_Witness ==
    /\ CausalityVerified
    /\ program.constraints.causality # <<>>
    /\ \E k \in DOMAIN UndeclaredPairs(program) :
          LET pair == UndeclaredPairs(program)[k]
          IN /\ pair.action_target = "cyl_A"
             /\ DeclaredPath(program, "valve_A", "cyl_A")
             /\ DeclaredPath(program, "cyl_A", pair.wait_sensor)
             /\ ~DeclaredPath(program, "Y0", "cyl_A")
             /\ Len(DiagnosticsOfPair(pair)) = 1
             /\ DiagnosticsOfPair(pair)[1].broken_link = "Y0 -> cyl_A"

----------------------------------------------------------------------------
(* SafetyModel::from_inputs: the actions of the steps *)

\* the device and the state an action sets, as ids of the model
EffectOfAction(action) ==
    LET name == CASE action.action = "extend" -> "extended"
                  [] action.action = "retract" -> "retracted"
                  [] OTHER -> action.value
        device == CHOOSE d \in DOMAIN model.devices : model.devices[d].name = action.target
    IN <<device, IndexOf(model.devices[device].states, name)>>

\* the extend, retract and set actions of a step on a state of the domain
\* of a declared device, those of its branches included
ModelledActions(step) ==
    LET tree == StatementTree(step.statements)
    IN {tree[n] : n \in {k \in DOMAIN tree :
           /\ tree[k].statement = "action"
           /\ tree[k].action \in {"extend", "retract", "set"}
           /\ \E d \in DOMAIN model.devices :
                  /\ model.devices[d].name = tree[k].target
                  /\ EffectOfAction(tree[k])[2] # 0}}

\* the states of the model that belong to a step: the state of the step
\* and the states synthesized for its blocks
ModelStatesOf(i, j) ==
    {s \in DOMAIN model.states :
        /\ model.states[s].task_name = program.tasks[i].name
        /\ \/ model.states[s].step_name = program.tasks[i].steps[j].name
           \/ model.states[s].step_name
                  \notin {program.tasks[i].steps[k].name : k \in DOMAIN program.tasks[i].steps}}

ActionOnSomeEdge(i, j, action) ==
    \E e \in DOMAIN model.edges :
        /\ model.edges[e].from \in ModelStatesOf(i, j)
        /\ EffectOfAction(action) \in EffectPairs(model.edges[e].effects)

\* C37: every extend, retract or set action of a step is on some edge of
\* the safety model that leaves the state of the step or of its branch, so
\* that the search applies its effect; the actions of the last step of a
\* task without on_complete are among them. A step without transition has
\* only the self-loop from_inputs adds, whose effect map is empty.
C37_ActionsInSafetyModel ==
    Done /\ sm.ok =>
        \A i \in DOMAIN program.tasks :
            \A j \in DOMAIN program.tasks[i].steps :
                \A action \in ModelledActions(program.tasks[i].steps[j]) :
                    ActionOnSomeEdge(i, j, action)

\* the steps that have a completion target: their actions are on an edge
ActionsOfCompletedSteps ==
    Done /\ sm.ok =>
        \A i \in DOMAIN program.tasks :
            \A j \in DOMAIN program.tasks[i].steps :
                IsSome(CompletionTargetOf(i, j)) =>
                    \A action \in ModelledActions(program.tasks[i].steps[j]) :
                        ActionOnSomeEdge(i, j, action)

\* task t1 of the steps s1 { extend cyl_A } and s2 { extend cyl_B }, no
\* on_complete, under cyl_A.extended conflicts_with cyl_B.extended: the
\* search returns Ok, Complete
C37_Witness ==
    /\ Done
    /\ sm.ok
    /\ Len(program.tasks) = 1
    /\ program.tasks[1].on_complete = None
    /\ Len(program.tasks[1].steps) = 2
    /\ program.tasks[1].steps[1].statements = <<Extend("cyl_A")>>
    /\ program.tasks[1].steps[2].statements = <<Extend("cyl_B")>>
    /\ program.constraints.safety = <<ConflictAB>>
    /\ safety_result.ok
    /\ safety_result.level = "Complete"
    /\ safety_result.diagnostics = <<>>
    /\ ~ActionOnSomeEdge(1, 2, Extend("cyl_B"))

----------------------------------------------------------------------------
(* The scan-cycle executor: timeouts *)

EngineStates == {State(TaskNames[i], StepName(j)) : i \in DOMAIN TaskNames, j \in 1..2}

\* the timeout transitions of a state with a duration above 0
TimeoutsOf(state) ==
    SelectSeq(sm.transitions,
        LAMBDA t : t.from = state /\ t.guard.kind = "timeout" /\ t.guard.duration_ms > 0)

\* no condition guard of the state holds on the inputs of the last scan
NoConditionHolds(state) ==
    \A k \in DOMAIN sm.transitions :
        sm.transitions[k].from = state /\ sm.transitions[k].guard.kind = "condition"
            => ~condition_holds(engine.hal, sm.transitions[k].guard.expression)

WaitingIn(state) ==
    /\ engine.running
    /\ engine.state = state
    /\ TimeoutsOf(state) # <<>>
    /\ NoConditionHolds(state)

\* C38: the executor does not stay forever in a state that has a
\* timeout(d), d > 0, while none of the condition guards of the state
\* holds: after finitely many scans the timer is expired and the executor
\* moves on. Every scan of the state starts the timer again before it reads
\* it, so the timer is never expired.
C38_TimeoutFires ==
    \A state \in EngineStates : ~<>[]WaitingIn(state)

\* every scan of a state leaves each timer of the state one cycle old
TimerRestartedByEveryScan ==
    [][engine.running /\ engine'.running =>
          \A k \in DOMAIN sm.transitions :
              sm.transitions[k].from = engine.state =>
                  \A o \in DOMAIN sm.transitions[k].timers :
                      LET name == sm.transitions[k].timers[o].timer_name
                      IN /\ name \in DOMAIN engine'.timers.name_map
                         /\ engine'.timers.timers[engine'.timers.name_map[name]].elapsed
                                = engine.cycle_time_ms]_vars

\* a timeout of 0 ms is taken by the first scan of its state
ZeroTimeoutFires ==
    \A state \in EngineStates :
        ~<>[](/\ engine.running
              /\ engine.state = state
              /\ \E k \in DOMAIN sm.transitions :
                     /\ sm.transitions[k].from = state
                     /\ sm.transitions[k].guard.kind = "timeout"
                     /\ sm.transitions[k].guard.duration_ms = 0
                     /\ sm.transitions[k].to # state)

\* task t1 of the step s1 { extend cyl_A; wait sensor_A; timeout 100ms ->
\* t2 } and task t2 of one step of plain actions, no on_complete: after
\* MaxCycles scans of 50 ms without sensor_A the executor is in t1.s1 and
\* the timer is 50 ms old
C38_Witness ==
    /\ engine.running
    /\ Len(program.tasks) = 2
    /\ program.tasks[1].on_complete = None
    /\ program.tasks[2].on_complete = None
    /\ program.tasks[1].steps
           = <<StepDeclaration(110, "s1",
                   <<Extend("cyl_A"), SensorWait("sensor_A"), TimeoutTo(100, "t2")>>)>>
    /\ program.tasks[2].steps = <<StepDeclaration(210, "s1", <<Retract("cyl_A")>>)>>
    /\ engine.cycle_count = MaxCycles
    /\ engine.cycle_time_ms * engine.cycle_count >= 100
    /\ WaitingIn(State("t1", "s1"))
    /\ Len(TimeoutsOf(State("t1", "s1"))) = 1
    /\ ~timer_expired(engine.timers, checked_timer_name(TimeoutsOf(State("t1", "s1"))[1]))
    /\ engine.timers.timers[0].elapsed = 50

(***************************************************************************)
(* verify_liveness: the states synthesized from a last step                *)
(***************************************************************************)

\* the states that parallel or race lowering synthesized from the last step
\* of a task that declares no on_complete
SynthesizedFromTerminal ==
    {state \in Range(sm.states) :
        /\ base_step_of(state.step_name) # state.step_name
        /\ \E i \in DOMAIN program.tasks :
               /\ program.tasks[i].name = state.task_name
               /\ program.tasks[i].on_complete = None
               /\ LastStep(program.tasks[i]).name = base_step_of(state.step_name)}

\* a program of one task without on_complete whose last step is a parallel
\* block of plain actions
EndsWithParallelActions ==
    /\ Len(program.tasks) = 1
    /\ program.tasks[1].on_complete = None
    /\ LastStep(program.tasks[1]).statements = <<ExtendBoth>>

\* C39: a state synthesized by parallel or race lowering from the last step
\* of a task without on_complete that has no outgoing transition raises no
\* dangling-terminal diagnostic, and a single-task program whose last step
\* is a parallel block of plain actions passes verify_liveness.
C39_SynthesizedTerminals ==
    Verified =>
        /\ \A state \in SynthesizedFromTerminal \cap WithoutOutgoing :
               DanglingDiagnosticsOf(state) = {}
        /\ EndsWithParallelActions => liveness_result.diagnostics = <<>>

\* what the code does: is_terminal_state compares the name of the state with
\* the name of the last step, so every synthesized state without an outgoing
\* transition has its diagnostic, attributed to the line of the last step
SynthesizedTerminalsReported ==
    Verified =>
        \A state \in SynthesizedFromTerminal \cap WithoutOutgoing :
            \E d \in DanglingDiagnosticsOf(state) :
                /\ Cardinality(DanglingDiagnosticsOf(state)) = 1
                /\ \E i \in DOMAIN program.tasks :
                       /\ program.tasks[i].name = state.task_name
                       /\ liveness_result.diagnostics[d].line
                              = LastStep(program.tasks[i]).line

\* one task without on_complete whose only step is a parallel block of two
\* actions: the join of the block has no outgoing transition and verify_liveness
\* reports it
C39_Witness ==
    /\ Verified
    /\ EndsWithParallelActions
    /\ Len(program.tasks[1].steps) = 1
    /\ LET join == State("t1", "s1__parallel_1_join")
       IN /\ join \in SynthesizedFromTerminal \cap WithoutOutgoing
          /\ DanglingDiagnosticsOf(join) # {}

(***************************************************************************)
(* verify_safety: the rules that are not searched                          *)
(***************************************************************************)

\* the program without its requires rules
WithoutRequires(p) ==
    [p EXCEPT !.constraints.safety =
        SelectSeq(@, LAMBDA rule : rule.relation # "requires")]

\* what a SafetyDiagnostic says: the line and the text of its rule, and the
\* violation path
DiagnosticsSaid(p, result) ==
    [d \in DOMAIN result.diagnostics |->
        [line |-> result.diagnostics[d].line,
         constraint |-> p.constraints.safety[result.diagnostics[d].rule],
         violation_path |-> result.diagnostics[d].violation_path]]

SameVerdict(p, result, q, other) ==
    /\ result.ok = other.ok
    /\ result.level = other.level
    /\ result.explored_depth = other.explored_depth
    /\ result.warnings = other.warnings
    /\ DiagnosticsSaid(p, result) = DiagnosticsSaid(q, other)

VerdictWithout(p) == verify_safety_with_config(p, constraint_set(p), sm, config)

\* C40: the requires rules of the constraint set change neither the Ok/Err
\* outcome, the level, the explored depth, the warnings nor the diagnostics
\* of verify_safety_with_config: the result is that of the program without
\* its requires rules.
C40_RequiresFrame ==
    Done => SameVerdict(program, safety_result,
                        WithoutRequires(program), VerdictWithout(WithoutRequires(program)))

\* the states a requires rule adds to the domain of a device
AddedByRequires(p) ==
    LET domains(q) == collect_device_domains(q, constraint_set(q))
    IN {<<i, state>> \in (DOMAIN p.topology.devices) \X {"on", "off", "extended", "retracted"} :
           /\ state \in Range(domains(p)[i].states)
           /\ state \notin Range(domains(WithoutRequires(p))[i].states)}

\* what the code does: collect_device_domains adds the states of every rule,
\* requires or not, to the domains of the devices, so the frame holds for
\* the requires rules that add no state an action sets
RequiresFrameWithinDomains ==
    Done /\ AddedByRequires(program) = {} =>
        SameVerdict(program, safety_result,
                    WithoutRequires(program), VerdictWithout(WithoutRequires(program)))

\* t1 retracts cyl_B and extends cyl_A, then sets cyl_A on and extends cyl_B,
\* and starts again:
\* with the requires rule on cyl_A.on the search of cyl_A.extended
\* conflicts_with cyl_B.extended finds nothing, without it a conflict
C40_Witness ==
    /\ Done
    /\ program.constraints.safety = <<ConflictAB, RequiresOn>>
    /\ Len(program.tasks) = 1
    /\ program.tasks[1].on_complete = Some(OnCompleteGoto("t1"))
    /\ Len(program.tasks[1].steps) = 2
    /\ program.tasks[1].steps[1].statements = <<Retract("cyl_B"), Extend("cyl_A")>>
    /\ program.tasks[1].steps[2].statements = <<Set("cyl_A", "on"), Extend("cyl_B")>>
    /\ build_constraint_set_from_ast(program.topology,
           [safety |-> program.constraints.safety, timing |-> <<>>, causality |-> <<>>],
           program.tasks).ok
    /\ safety_result.ok
    /\ ~VerdictWithout(WithoutRequires(program)).ok

====
